---- MODULE Spec2Model ----
(***************************************************************************)
(* The NOI parse pipeline (parseNOI), its progress ledger (ParseLogger)    *)
(* and the violation row they write, as a state machine.                   *)
(*                                                                         *)
(* The specifications share the variables:                                 *)
(*   Spec        one run of parseNOI on a trigger-created violation row,   *)
(*               with the retries the executor grants and the outcomes the *)
(*               blob store, the extraction client and the record store    *)
(*               can produce;                                              *)
(*   LedgerSpec  the public API of ParseLogger called in any order by      *)
(*               successive ParseLogger instances on one violation row.    *)
(* LiveSpec is Spec with the executor's scheduling stated as fairness.     *)
(* MatchSpec is step 'match-photos' alone on any item rows and pages.      *)
(* MultiSpec is several runs of parseNOI at once, on the same violation    *)
(* row or on different ones, every flush a read and a later write.         *)
(* NoticeSpec is the notice-level update of step 'insert-records' on any   *)
(* extraction result; StatusSpec is the business status of a violation     *)
(* under a run and user requests, with the audit trigger; GeminiSpec is    *)
(* the handling of a model response by the extraction client.              *)
(***************************************************************************)
EXTENDS Integers, Sequences, FiniteSets, TLC

VARIABLES
    status,         \* violations.status (business status)
    parseStatus,    \* violations.parse_status
    metaSteps,      \* violations.parse_metadata.steps
    metaLogs,       \* violations.parse_metadata.logs
    metaExtras,     \* the other keys of violations.parse_metadata
    items,          \* rows of violation_items of the violation
    photos,         \* rows of photos of the violation
    lgSteps,        \* ParseLogger.steps of the current instance
    lgLogs,         \* ParseLogger.logs of the current instance
    lgExtras,       \* ParseLogger.extras of the current instance
    now,            \* the clock read by new Date()
    nlogs,          \* number of log entries generated so far
    pc,             \* position of the run: init, start, body, done, dead, api
    cur,            \* index in StepNames of the step the run is at
    attempt,        \* failed attempts of the current step so far
    aiResult,       \* memoized result of step 'ai-parse'
    pageAnalysis,   \* memoized result of step 'analyze-pages'
    faults,         \* adverse outcomes the environment has produced so far
    last,           \* the operation performed last and the outcome of its store calls
    db,             \* MultiSpec: the violation rows with their item and photo rows, by id
    runs,           \* MultiSpec: the runs of parseNOI in progress
    sched,          \* MultiSpec: the run that made the last call, and the preemptions
    notice,         \* NoticeSpec: the notice-level columns 'insert-records' writes
    audit,          \* StatusSpec: rows of audit_log of the violation
    ui,             \* StatusSpec: the violation as the detail page shows it
    response        \* GeminiSpec: the response of the model, and what the client did

vars == <<status, parseStatus, metaSteps, metaLogs, metaExtras, items, photos,
          lgSteps, lgLogs, lgExtras, now, nlogs, pc, cur, attempt, aiResult,
          pageAnalysis, faults, last, db, runs, sched,
          notice, audit, ui, response>>

(***************************************************************************)
(* Bounds of the model.                                                    *)
(***************************************************************************)
\* adverse outcomes (failed store calls, failed downloads, raised or
\* unverifiable extractions) one behaviour of Spec may contain; an outage that
\* makes a step throw may last through the retries of that step and counts once
MaxFaults == 1
\* ParseLogger API calls one LedgerSpec behaviour may contain
MaxOps == 3
\* failed store calls one LedgerSpec behaviour may contain
MaxLedgerFaults == 1
\* cost_usd, in millionths of a dollar, of the two extraction calls
AiParseCost == 3
AnalyzePagesCost == 5
\* item rows and classified pages of a record in MatchSpec
MaxItems == 2
MaxPages == 2

(***************************************************************************)
(* Program constants.                                                      *)
(***************************************************************************)
Retries == 2
NoTs == 0

StepNames == <<"ai_parse", "insert_records", "analyze_pages", "match_photos", "complete">>
KnownSteps == {StepNames[i] : i \in 1..Len(StepNames)}

EmptyMap == [k \in {} |-> 0]

\* { ...a, ...b }: shallow overwrite, last writer wins per key
Spread(a, b) == [k \in (DOMAIN a) \cup (DOMAIN b) |-> IF k \in DOMAIN b THEN b[k] ELSE a[k]]

\* Array.prototype.findIndex(s => s.step === name), 1-based, 0 when absent
FindIndex(steps, name) ==
    IF \E i \in 1..Len(steps) : steps[i].step = name
    THEN CHOOSE i \in 1..Len(steps) :
            /\ steps[i].step = name
            /\ \A j \in 1..(i - 1) : steps[j].step # name
    ELSE 0

\* messages are sequences: <<>> when the entry has no message, CallerMessage for a
\* text the caller passes that the ledger does not build itself
NoMessage == <<>>
CallerMessage == <<"message">>

\* the steps a trigger event stores with the new violation row
TriggerSteps ==
    [i \in 1..Len(StepNames) |->
        [step |-> StepNames[i], status |-> "pending", message |-> NoMessage,
         started_at |-> NoTs, completed_at |-> NoTs]]

(***************************************************************************)
(* The world an operation acts on: the violation row, its item and photo   *)
(* rows, the current ParseLogger instance and the clock.                   *)
(***************************************************************************)
World ==
    [status |-> status, parseStatus |-> parseStatus, steps |-> metaSteps,
     logs |-> metaLogs, extras |-> metaExtras, items |-> items, photos |-> photos,
     lg |-> [steps |-> lgSteps, logs |-> lgLogs, extras |-> lgExtras],
     now |-> now, nlogs |-> nlogs]

NewLogger == [steps |-> <<>>, logs |-> <<>>, extras |-> EmptyMap]

\* the elements of a sequence
SeqRange(seq) == {seq[i] : i \in 1..Len(seq)}

\* the value of the one element of S
Val(S) == CHOOSE r \in S : TRUE

(***************************************************************************)
(* ParseLogger                                                             *)
(*                                                                         *)
(* Val({e : x \in {d}}) reads "let x be the value of d in e": the operand   *)
(* is evaluated once, where a LET definition is evaluated at every use.    *)
(***************************************************************************)
addLog(w0, level, step, message) ==
    Val({[w EXCEPT !.lg.logs = Append(@, [id |-> w.nlogs + 1, ts |-> w.now, level |-> level,
                                          step |-> step, message |-> message]),
                   !.nlogs = @ + 1] : w \in {w0}})

info(w, step, message) == addLog(w, "info", step, message)
warn(w, step, message) == addLog(w, "warn", step, message)
error(w, step, message) == addLog(w, "error", step, message)
debug(w, step, message) == addLog(w, "debug", step, message)

upsertStep(w0, stepName, st, message) ==
    Val({ LET idx == FindIndex(w.lg.steps, stepName)
              stepData == [step |-> stepName, status |-> st, message |-> message,
                           started_at |-> IF st = "running" THEN w.now ELSE NoTs,
                           completed_at |-> IF st \in {"completed", "failed"}
                                            THEN w.now ELSE NoTs]
              kept == IF idx > 0 /\ w.lg.steps[idx].started_at # NoTs
                         /\ stepData.started_at = NoTs
                      THEN [stepData EXCEPT !.started_at = w.lg.steps[idx].started_at]
                      ELSE stepData
          IN  [w EXCEPT !.lg.steps = IF idx > 0 THEN [@ EXCEPT ![idx] = kept]
                                     ELSE Append(@, kept)]
          : w \in {w0} })

MergeAlwaysPush(merged, step) == Append(merged, step)

\* one iteration of flush's merge loop
MergeOne(merged, step) ==
    LET idx == FindIndex(merged, step.step)
    IN  IF idx > 0 THEN [merged EXCEPT ![idx] = step] ELSE Append(merged, step)

RECURSIVE MergeSteps(_, _)
MergeSteps(existingSteps, mine) ==
    IF mine = <<>> THEN existingSteps
    ELSE Val({MergeSteps(merged, rest) :
                merged \in {Val({MergeOne(e, s) : e \in {existingSteps}, s \in {Head(mine)}})},
                rest \in {Tail(mine)}})

\* parse_status flush writes when the caller forces none; "" when it writes none
DeriveStatus(mergedSteps) ==
    LET hasFailed == \E i \in 1..Len(mergedSteps) : mergedSteps[i].status = "failed"
        allComplete == /\ Len(mergedSteps) > 0
                       /\ \A i \in 1..Len(mergedSteps) : mergedSteps[i].status = "completed"
        hasRunning == \E i \in 1..Len(mergedSteps) : mergedSteps[i].status = "running"
    IN  IF hasFailed THEN "failed"
        ELSE IF allComplete THEN "completed"
        ELSE IF hasRunning THEN "processing"
        ELSE ""

FlushKeepsBuffer(w) == w

\* this.logs = []
ClearBuffer(w) == [w EXCEPT !.lg.logs = <<>>]

\* what flush writes, given the world and the merged steps
FlushWrite(w, mergedSteps, forced, readOk, writeOk) ==
    LET existingLogs == IF readOk THEN w.logs ELSE <<>>
        existingExtras == IF readOk THEN w.extras ELSE EmptyMap
        mergedLogs == existingLogs \o w.lg.logs
        derived == DeriveStatus(mergedSteps)
        newStatus == IF forced # "" THEN forced
                     ELSE IF derived # "" THEN derived
                     ELSE w.parseStatus
        cleared == ClearBuffer(w)
    IN  IF writeOk
        THEN [cleared EXCEPT !.steps = mergedSteps,
                             !.logs = mergedLogs,
                             !.extras = Spread(existingExtras, w.lg.extras),
                             !.parseStatus = newStatus]
        ELSE cleared

\* readOk: the select returned the row; writeOk: the update was applied
flush(w0, forced, readOk, writeOk) ==
    Val({ Val({FlushWrite(w, mergedSteps, forced, readOk, writeOk) :
                mergedSteps \in {MergeSteps(IF readOk THEN w.steps ELSE <<>>, w.lg.steps)}})
          : w \in {w0} })

stepStartKeepsEntry(w, stepName) ==
    IF FindIndex(w.lg.steps, stepName) > 0 THEN info(w, stepName, "STARTED")
    ELSE upsertStep(info(w, stepName, "STARTED"), stepName, "running", CallerMessage)

\* stepStart up to its flush
stepStartPrep(w, stepName) ==
    upsertStep(info(w, stepName, "STARTED"), stepName, "running", CallerMessage)

stepStart(w, stepName, readOk, writeOk) ==
    flush(stepStartPrep(w, stepName), "", readOk, writeOk)

\* stepFail up to its flush
stepFailPrep(w, stepName, message) ==
    upsertStep(error(w, stepName, "FAILED"), stepName, "failed", message)

stepFail(w, stepName, message, readOk, writeOk) ==
    flush(stepFailPrep(w, stepName, message), "failed", readOk, writeOk)

\* c.detail, 'undefined' when the check carries none
DetailOf(c) == IF "detail" \in DOMAIN c THEN c.detail ELSE "undefined"

FirstFailedOnly(checks) ==
    LET failed == SelectSeq(checks, LAMBDA c : ~c.passed)
    IN  <<"Verification failed">>
        \o (IF failed = <<>> THEN <<>> ELSE <<<<failed[1].name, DetailOf(failed[1])>>>>)

\* `Verification failed: ${failed.map(f => `${f.name}: ${f.detail}`).join('; ')}`
VerificationMessage(checks) ==
    LET failed == SelectSeq(checks, LAMBDA c : ~c.passed)
    IN  <<"Verification failed">>
        \o [i \in 1..Len(failed) |-> <<failed[i].name, DetailOf(failed[i])>>]

\* stepComplete up to its flush: the world with the calls buffered, and the
\* parse_status the flush is given ("" for none)
\* verification: <<>> when none is passed, else <<[passed, checks]>> with checks a
\* sequence of [name, passed, detail]; extra: the keys to assign to this.extras
stepCompletePrep(w0, stepName, verification, extra) ==
    Val({ LET v == verification[1]
              anyFailed == \E i \in 1..Len(v.checks) : ~v.checks[i].passed
              w1 == IF verification = <<>> THEN w
                    ELSE IF anyFailed THEN warn(w, stepName, "Verification warnings")
                    ELSE info(w, stepName, "Verification passed")
              w2 == upsertStep(info(w1, stepName, "COMPLETED"), stepName, "completed",
                               CallerMessage)
              w3 == [w2 EXCEPT !.lg.extras = Spread(@, extra)]
          IN  IF verification # <<>> /\ ~v.passed
              THEN [w |-> stepFailPrep(w1, stepName, VerificationMessage(v.checks)),
                    forced |-> "failed"]
              ELSE [w |-> w3, forced |-> ""]
          : w \in {w0} })

stepComplete(w, stepName, verification, extra, readOk, writeOk) ==
    Val({ flush(p.w, p.forced, readOk, writeOk) :
            p \in {stepCompletePrep(w, stepName, verification, extra)} })

(***************************************************************************)
(* State changes                                                           *)
(***************************************************************************)
\* the world w becomes the state; one tick of the clock per operation
Install(w0) == \E w \in {w0} :
    /\ status' = w.status
    /\ parseStatus' = w.parseStatus
    /\ metaSteps' = w.steps
    /\ metaLogs' = w.logs
    /\ metaExtras' = w.extras
    /\ items' = w.items
    /\ photos' = w.photos
    /\ lgSteps' = w.lg.steps
    /\ lgLogs' = w.lg.logs
    /\ lgExtras' = w.lg.extras
    /\ now' = w.now + 1
    /\ nlogs' = w.nlogs
    /\ UNCHANGED <<db, runs, sched, notice, audit, ui, response>>

\* what `last` records: the operation, the step it names, whether it ended in a
\* flush, whether that flush was given a parse_status, and its store calls
Op(name, step, flushed, forced, readOk, writeOk) ==
    [op |-> name, step |-> step, flushed |-> flushed, forced |-> forced,
     readOk |-> readOk, writeOk |-> writeOk]

\* outcomes of the two store calls of one flush
StoreOutcomes == {<<TRUE, TRUE>>, <<FALSE, TRUE>>, <<TRUE, FALSE>>}
Cost(o) == IF o = <<TRUE, TRUE>> THEN 0 ELSE 1

(***************************************************************************)
(* LedgerSpec: the ParseLogger API on one violation row                    *)
(***************************************************************************)
\* the steps the API calls of LedgerSpec name
LedgerSteps == {"ai_parse", "insert_records"}
FailingVerification ==
    <<[passed |-> FALSE,
       checks |-> <<[name |-> "first", passed |-> FALSE, detail |-> "empty"],
                    [name |-> "second", passed |-> TRUE, detail |-> "2 items"],
                    [name |-> "third", passed |-> FALSE]>>]>>
LedgerVerifications == {<<>>, FailingVerification}

\* a row made by the parse trigger (five pending steps) or by the CSV import
\* (parse_metadata left at the column default '{}')
LedgerInit ==
    /\ status = "NEW"
    /\ parseStatus = "pending"
    /\ metaSteps \in {TriggerSteps, <<>>}
    /\ metaLogs = <<>>
    /\ metaExtras = EmptyMap
    /\ items = <<>>
    /\ photos = <<>>
    /\ lgSteps = <<>>
    /\ lgLogs = <<>>
    /\ lgExtras = EmptyMap
    /\ now = 1
    /\ nlogs = 0
    /\ pc = "api"
    /\ cur = 0
    /\ attempt = 0
    /\ aiResult = <<>>
    /\ pageAnalysis = <<>>
    /\ faults = 0
    /\ db = <<>>
    /\ runs = <<>>
    /\ sched = <<>>
    /\ notice = <<>>
    /\ audit = <<>>
    /\ ui = <<>>
    /\ response = <<>>
    /\ last = Op("construct", "", FALSE, FALSE, TRUE, TRUE)

LedgerFrame == UNCHANGED <<pc, cur, attempt, aiResult, pageAnalysis>>

\* new ParseLogger(violationId): the executor re-creates the function context
LedgerNew ==
    /\ pc = "api"
    /\ <<lgSteps, lgLogs, lgExtras>> # <<<<>>, <<>>, EmptyMap>>
    /\ lgSteps' = <<>>
    /\ lgLogs' = <<>>
    /\ lgExtras' = EmptyMap
    /\ last' = Op("construct", "", FALSE, FALSE, TRUE, TRUE)
    /\ UNCHANGED <<status, parseStatus, metaSteps, metaLogs, metaExtras, items, photos, db, runs, sched,
                   notice, audit, ui, response,
                   now, nlogs, faults>>
    /\ LedgerFrame

LedgerInfo ==
    /\ pc = "api"
    /\ now <= MaxOps
    /\ Install(info(World, "init", "message"))
    /\ last' = Op("info", "init", FALSE, FALSE, TRUE, TRUE)
    /\ UNCHANGED faults
    /\ LedgerFrame

LedgerStepStart ==
    /\ pc = "api"
    /\ now <= MaxOps
    /\ \E s \in LedgerSteps, o \in StoreOutcomes :
        /\ faults + Cost(o) <= MaxLedgerFaults
        /\ Install(stepStart(World, s, o[1], o[2]))
        /\ last' = Op("stepStart", s, TRUE, FALSE, o[1], o[2])
        /\ faults' = faults + Cost(o)
    /\ LedgerFrame

LedgerStepComplete ==
    /\ pc = "api"
    /\ now <= MaxOps
    /\ \E s \in LedgerSteps, v \in LedgerVerifications, o \in StoreOutcomes :
        /\ faults + Cost(o) <= MaxLedgerFaults
        /\ Install(stepComplete(World, s, v, EmptyMap, o[1], o[2]))
        /\ last' = Op("stepComplete", s, TRUE, v # <<>>, o[1], o[2])
        /\ faults' = faults + Cost(o)
    /\ LedgerFrame

LedgerStepFail ==
    /\ pc = "api"
    /\ now <= MaxOps
    /\ \E s \in LedgerSteps, o \in StoreOutcomes :
        /\ faults + Cost(o) <= MaxLedgerFaults
        /\ Install(stepFail(World, s, CallerMessage, o[1], o[2]))
        /\ last' = Op("stepFail", s, TRUE, TRUE, o[1], o[2])
        /\ faults' = faults + Cost(o)
    /\ LedgerFrame

LedgerFlush ==
    /\ pc = "api"
    /\ now <= MaxOps
    /\ \E o \in StoreOutcomes :
        /\ faults + Cost(o) <= MaxLedgerFaults
        /\ Install(flush(World, "", o[1], o[2]))
        /\ last' = Op("flush", "", TRUE, FALSE, o[1], o[2])
        /\ faults' = faults + Cost(o)
    /\ LedgerFrame

LedgerNext ==
    \/ LedgerNew
    \/ LedgerInfo
    \/ LedgerStepStart
    \/ LedgerStepComplete
    \/ LedgerStepFail
    \/ LedgerFlush

LedgerSpec == LedgerInit /\ [][LedgerNext]_vars

(***************************************************************************)
(* The document: what the extraction client can return                     *)
(***************************************************************************)
\* violation codes are sequences of characters
CodeA == <<"A", "1">>
CodeB == <<"B", "1">>
CodeC == <<"C", "1">>
CodeAIrregular == <<" ", "a", "1", "\t">>

WorkOrder(n, code) == [item_number |-> n, violation_code |-> code]
Doc(id, addr, wos) == [notice_id |-> id, infraction_address |-> addr, work_orders |-> wos]

\* results of parseNOIPdf
Docs ==
    { Doc("25NOIR", "557 LEBAUM ST", <<WorkOrder(1, CodeA), WorkOrder(2, CodeB)>>),
      Doc("25NOIR", "557 LEBAUM ST", <<WorkOrder(1, CodeA)>>),
      Doc("25NOIR", "557 LEBAUM ST", <<>>),
      Doc("", "557 LEBAUM ST", <<WorkOrder(1, CodeA)>>),
      Doc("25NOIR", "", <<WorkOrder(1, CodeA)>>) }

\* violation_code: <<>> for null, <<code>> for a string
Page(n, code, photo) == [page_number |-> n, violation_code |-> code, is_evidence_photo |-> photo]

\* results of analyzePdfPages
PageAnalyses ==
    { <<Page(1, <<>>, FALSE), Page(2, <<CodeA>>, FALSE), Page(3, <<CodeA>>, TRUE),
        Page(4, <<CodeB>>, FALSE), Page(5, <<CodeB>>, TRUE)>>,
      <<Page(1, <<CodeAIrregular>>, TRUE), Page(2, <<CodeC>>, TRUE), Page(3, <<>>, TRUE)>>,
      <<>> }

\* FieldValidation of parseNOIPdf and the verification 'ai-parse' builds from it
\* (respondent, date, fines and descriptions are present in every Doc: their checks
\* pass and are left out)
AiVerification(doc) ==
    LET has_notice_id == doc.notice_id # ""
        has_address == doc.infraction_address # ""
        work_order_count == Len(doc.work_orders)
    IN  [passed |-> has_notice_id /\ has_address /\ work_order_count > 0,
         checks |-> <<[name |-> "notice_id present", passed |-> has_notice_id,
                       detail |-> IF has_notice_id THEN doc.notice_id ELSE "empty"],
                      [name |-> "address present", passed |-> has_address,
                       detail |-> IF has_address THEN doc.infraction_address ELSE "empty"],
                      [name |-> "work_orders found", passed |-> work_order_count > 0,
                       detail |-> "work_order_count items"],
                      [name |-> "all items have codes",
                       passed |-> \A i \in 1..Len(doc.work_orders) :
                                    doc.work_orders[i].violation_code # <<>>]>>]

PagesVerification(pages) ==
    LET total_pages == Len(pages)
        evidence_photo_count == Cardinality({i \in 1..Len(pages) : pages[i].is_evidence_photo})
    IN  [passed |-> total_pages > 0,
         checks |-> <<[name |-> "pages detected", passed |-> total_pages > 0,
                       detail |-> "total_pages pages"],
                      [name |-> "evidence photos found", passed |-> evidence_photo_count > 0,
                       detail |-> "evidence_photo_count photos"]>>]

(***************************************************************************)
(* Photo matching                                                          *)
(***************************************************************************)
IsSpace(c) == c \in {" ", "\t"}
\* toLowerCase() of one character
Lower(c) ==
    LET UpperCase == <<"A", "B", "C", "D", "E", "F", "G", "H", "I", "J", "K", "L", "M",
                       "N", "O", "P", "Q", "R", "S", "T", "U", "V", "W", "X", "Y", "Z">>
        LowerCase == <<"a", "b", "c", "d", "e", "f", "g", "h", "i", "j", "k", "l", "m",
                       "n", "o", "p", "q", "r", "s", "t", "u", "v", "w", "x", "y", "z">>
    IN  IF \E i \in 1..Len(UpperCase) : UpperCase[i] = c
        THEN LowerCase[CHOOSE i \in 1..Len(UpperCase) : UpperCase[i] = c]
        ELSE c

RECURSIVE SkipSpaces(_)
SkipSpaces(s0) ==
    Val({IF s # <<>> /\ IsSpace(Head(s)) THEN SkipSpaces(Tail(s)) ELSE s : s \in {s0}})

\* code.replace(/\s+/g, ' ')
RECURSIVE CollapseSpaces(_)
CollapseSpaces(s0) ==
    Val({IF s = <<>> THEN <<>>
         ELSE IF IsSpace(Head(s)) THEN <<" ">> \o CollapseSpaces(SkipSpaces(s))
         ELSE <<Head(s)>> \o CollapseSpaces(Tail(s)) : s \in {s0}})

RECURSIVE DropTrailingSpaces(_)
DropTrailingSpaces(s0) ==
    Val({IF s # <<>> /\ IsSpace(s[Len(s)])
         THEN DropTrailingSpaces(SubSeq(s, 1, Len(s) - 1)) ELSE s : s \in {s0}})

\* code.trim()
Trim(s) == DropTrailingSpaces(SkipSpaces(s))

\* toLowerCase() of every character
LowerAll(s) == [i \in 1..Len(s) |-> Lower(s[i])]

normalizeCodeNoFold(code) == Trim(CollapseSpaces(code))

\* code.replace(/\s+/g, ' ').trim().toLowerCase()
normalizeCode(code) == Val({LowerAll(t) : t \in {Trim(CollapseSpaces(code))}})

MatchedItemIdLast(its, code) ==
    LET hit(i) == its[i].violation_code # <<>>
                  /\ normalizeCode(its[i].violation_code) = normalizeCode(code)
    IN  IF \E i \in 1..Len(its) : hit(i)
        THEN its[CHOOSE i \in 1..Len(its) : hit(i) /\ \A j \in (i + 1)..Len(its) : ~hit(j)].id
        ELSE 0

\* items.find(...): the id of the first matching item row, 0 when there is none
MatchedItemId(its, code) ==
    LET hit(i) == its[i].violation_code # <<>>
                  /\ normalizeCode(its[i].violation_code) = normalizeCode(code)
    IN  IF \E i \in 1..Len(its) : hit(i)
        THEN its[CHOOSE i \in 1..Len(its) : hit(i) /\ \A j \in 1..(i - 1) : ~hit(j)].id
        ELSE 0

QualifiesAnyCodedPage(page) == page.violation_code # <<>> /\ page.violation_code # <<<<>>>>

\* if (!page.is_evidence_photo || !page.violation_code) continue
Qualifies(page) == page.is_evidence_photo /\ page.violation_code # <<>> /\ page.violation_code # <<<<>>>>

\* the loop of 'match-photos' over pages[k..]; failing: the page numbers whose photo
\* insert returns an error; acc: [w, matchedCount, unmatchedCount]
RECURSIVE MatchLoop(_, _, _, _, _)
MatchLoop(acc, pages, k, its, failing) ==
    IF k > Len(pages) THEN acc
    ELSE IF ~Qualifies(pages[k]) THEN MatchLoop(acc, pages, k + 1, its, failing)
    ELSE
        LET page == pages[k]
            step(id) ==
                LET w1 == IF id = 0 THEN warn(acc.w, "match_photos", "No item match")
                          ELSE acc.w
                    unmatched == IF id = 0 THEN acc.unmatchedCount + 1
                                 ELSE acc.unmatchedCount
                    row == [page_number |-> page.page_number,
                            matched_violation_code |-> page.violation_code[1],
                            violation_item_id |-> id]
                IN  IF page.page_number \in failing
                    THEN [w |-> error(w1, "match_photos", "Failed to insert photo"),
                          matchedCount |-> acc.matchedCount, unmatchedCount |-> unmatched]
                    ELSE [w |-> [w1 EXCEPT !.photos = Append(@, row)],
                          matchedCount |-> acc.matchedCount + 1, unmatchedCount |-> unmatched]
        IN  Val({MatchLoop(next, pages, k + 1, its, failing) :
                    next \in {Val({step(id) : id \in {MatchedItemId(its, page.violation_code[1])}})}})

(***************************************************************************)
(* Spec: one run of parseNOI                                               *)
(***************************************************************************)
\* POST /api/parse: the violation row the trigger creates before it sends the event
Init ==
    /\ status = "NEW"
    /\ parseStatus = "pending"
    /\ metaSteps = TriggerSteps
    /\ metaLogs = <<>>
    /\ metaExtras = EmptyMap
    /\ items = <<>>
    /\ photos = <<>>
    /\ lgSteps = <<>>
    /\ lgLogs = <<>>
    /\ lgExtras = EmptyMap
    /\ now = 1
    /\ nlogs = 0
    /\ pc = "init"
    /\ cur = 0
    /\ attempt = 0
    /\ aiResult = <<>>
    /\ pageAnalysis = <<>>
    /\ faults = 0
    /\ db = <<>>
    /\ runs = <<>>
    /\ sched = <<>>
    /\ notice = <<>>
    /\ audit = <<>>
    /\ ui = <<>>
    /\ response = <<>>
    /\ last = Op("construct", "", FALSE, FALSE, TRUE, TRUE)

\* the step function returned: the executor memoizes it and goes on to the next step
Returned ==
    IF cur < Len(StepNames)
    THEN pc' = "start" /\ cur' = cur + 1 /\ attempt' = 0
    ELSE pc' = "done" /\ cur' = cur /\ attempt' = attempt

ThrewOnceMore ==
    IF attempt <= Retries
    THEN pc' = "start" /\ cur' = cur /\ attempt' = attempt + 1
    ELSE pc' = "dead" /\ cur' = cur /\ attempt' = attempt

\* the step function threw: the executor runs it again, Retries times at most
Threw ==
    IF attempt < Retries
    THEN pc' = "start" /\ cur' = cur /\ attempt' = attempt + 1
    ELSE pc' = "dead" /\ cur' = cur /\ attempt' = attempt

Bool(b) == IF b THEN 0 ELSE 1

\* what an outcome that makes the step throw adds to `faults`
Outage == IF attempt = 0 THEN 1 ELSE 0

\* the body of step 'init'; updateOk: the update of the violation row is applied
InitBody(w, updateOk) ==
    LET w0 == info(w, "init", "Parse pipeline started")
    IN  IF updateOk THEN [w0 EXCEPT !.status = "PARSING", !.parseStatus = "processing"]
        ELSE w0

\* step 'init'
InitStep ==
    /\ pc = "init"
    /\ \E updateOk \in BOOLEAN :
        /\ faults + Bool(updateOk) <= MaxFaults
        /\ Install(InitBody(World, updateOk))
        /\ faults' = faults + Bool(updateOk)
        /\ last' = Op("init", "init", FALSE, FALSE, TRUE, updateOk)
    /\ pc' = "start"
    /\ cur' = 1
    /\ attempt' = 0
    /\ UNCHANGED <<aiResult, pageAnalysis>>

\* the executor re-creates the function context: const log = new ParseLogger(violationId)
Rebuild ==
    /\ pc = "start"
    /\ <<lgSteps, lgLogs, lgExtras>> # <<<<>>, <<>>, EmptyMap>>
    /\ lgSteps' = <<>>
    /\ lgLogs' = <<>>
    /\ lgExtras' = EmptyMap
    /\ last' = Op("construct", "", FALSE, FALSE, TRUE, TRUE)
    /\ UNCHANGED <<status, parseStatus, metaSteps, metaLogs, metaExtras, items, photos, db, runs, sched,
                   notice, audit, ui, response,
                   now, nlogs, pc, cur, attempt, aiResult, pageAnalysis, faults>>

\* await log.stepStart(...), the first statement of every step function
BeginStep ==
    /\ pc = "start"
    /\ \E o \in StoreOutcomes :
        /\ faults + Cost(o) <= MaxFaults
        /\ Install(stepStart(World, StepNames[cur], o[1], o[2]))
        /\ faults' = faults + Cost(o)
        /\ last' = Op("stepStart", StepNames[cur], TRUE, FALSE, o[1], o[2])
    /\ pc' = "body"
    /\ UNCHANGED <<cur, attempt, aiResult, pageAnalysis>>

\* log.timed around a call that returns { data, error } and does not throw
timedReturns(w, step) == info(debug(w, step, "Starting"), step, "Finished")
\* log.timed around a call that throws
timedThrows(w, step) == error(debug(w, step, "Starting"), step, "Error")

\* the body of step 'ai-parse' when the download and parseNOIPdf succeed: the
\* world before stepComplete and the arguments stepComplete is given
AiParseBody(w, doc) ==
    LET w0 == timedReturns(w, "ai_parse")
        w1 == info(w0, "ai_parse", "PDF downloaded")
    IN  [w |-> info(timedReturns(w1, "ai_parse"), "ai_parse", "Token usage"),
         verification |-> AiVerification(doc),
         extra |-> ("items_found" :> Len(doc.work_orders))
                   @@ ("costs" :> ("ai_parse" :> AiParseCost))]

\* step 'ai-parse' after stepStart
AiParse ==
    /\ pc = "body" /\ cur = 1
    /\ LET w0 == timedReturns(World, "ai_parse")
           w1 == info(w0, "ai_parse", "PDF downloaded")
       IN  \/ \E o \in StoreOutcomes :        \* the download returns an error
                /\ faults + Outage + Cost(o) <= MaxFaults
                /\ Install(stepFail(w0, "ai_parse", CallerMessage, o[1], o[2]))
                /\ faults' = faults + Outage + Cost(o)
                /\ last' = Op("ai-parse", "ai_parse", TRUE, TRUE, o[1], o[2])
                /\ Threw
                /\ UNCHANGED <<aiResult, pageAnalysis>>
           \/ /\ faults + Outage <= MaxFaults      \* parseNOIPdf throws
              /\ Install(timedThrows(w1, "ai_parse"))
              /\ faults' = faults + Outage
              /\ last' = Op("ai-parse", "ai_parse", FALSE, FALSE, TRUE, TRUE)
              /\ Threw
              /\ UNCHANGED <<aiResult, pageAnalysis>>
           \/ \E doc \in Docs, o \in StoreOutcomes :
                \E b \in {AiParseBody(World, doc)} :
                LET v == b.verification
                IN  /\ faults + Bool(v.passed) + Cost(o) <= MaxFaults
                    /\ Install(stepComplete(b.w, "ai_parse", <<v>>, b.extra, o[1], o[2]))
                    /\ faults' = faults + Bool(v.passed) + Cost(o)
                    /\ last' = Op("ai-parse", "ai_parse", TRUE, ~v.passed, o[1], o[2])
                    /\ aiResult' = <<doc>>
                    /\ Returned
                    /\ UNCHANGED pageAnalysis

\* the rows 'insert-records' inserts for the work orders
ItemRows(work_orders, firstId) ==
    [i \in 1..Len(work_orders) |->
        [id |-> firstId + i - 1, item_number |-> work_orders[i].item_number,
         violation_code |-> work_orders[i].violation_code]]

InsertItemsUpsert(existing, work_orders) ==
    LET fresh == SelectSeq(work_orders,
                           LAMBDA wo : \A i \in 1..Len(existing) :
                                          existing[i].item_number # wo.item_number)
    IN  existing \o ItemRows(fresh, Len(existing) + 1)

\* supabase.from('violation_items').insert(items): the item rows of the violation
\* after the insert
InsertItems(existing, work_orders) ==
    existing \o ItemRows(work_orders, Len(existing) + 1)

CountAtLeast(count, expected) == count >= expected

\* count === items.length
CountMatches(count, expected) == count = expected

\* the body of step 'insert-records' when the update and the insert succeed
InsertRecordsBody(w, work_orders) ==
    LET w0 == timedReturns(info(w, "insert_records", "Parsed notice-level fields"),
                           "insert_records")
        w1 == timedReturns(w0, "insert_records")
        w2 == [w1 EXCEPT !.items = InsertItems(@, work_orders)]
        count == Len(w2.items)
    IN  [w |-> w2,
         verification |->
            [passed |-> CountMatches(count, Len(work_orders)),
             checks |-> <<[name |-> "violation updated", passed |-> TRUE],
                          [name |-> "items inserted", passed |-> TRUE,
                           detail |-> "items.length items"],
                          [name |-> "count matches",
                           passed |-> CountMatches(count, Len(work_orders)),
                           detail |-> "DB has count, expected items.length"]>>],
         extra |-> EmptyMap]

\* step 'insert-records' after stepStart
InsertRecords ==
    /\ pc = "body" /\ cur = 2
    /\ LET work_orders == aiResult[1].work_orders
           w0 == timedReturns(info(World, "insert_records", "Parsed notice-level fields"),
                              "insert_records")
           w1 == timedReturns(w0, "insert_records")
       IN  \/ \E o \in StoreOutcomes :        \* the violation update returns an error
                /\ faults + Outage + Cost(o) <= MaxFaults
                /\ Install(stepFail(w0, "insert_records", CallerMessage, o[1], o[2]))
                /\ faults' = faults + Outage + Cost(o)
                /\ last' = Op("insert-records", "insert_records", TRUE, TRUE, o[1], o[2])
                /\ Threw
           \/ \E o \in StoreOutcomes :        \* the item insert returns an error
                /\ faults + Outage + Cost(o) <= MaxFaults
                /\ Install(stepFail(w1, "insert_records", CallerMessage, o[1], o[2]))
                /\ faults' = faults + Outage + Cost(o)
                /\ last' = Op("insert-records", "insert_records", TRUE, TRUE, o[1], o[2])
                /\ Threw
           \/ \E o \in StoreOutcomes, b \in {InsertRecordsBody(World, work_orders)} :
                /\ faults + Cost(o) <= MaxFaults
                /\ Install(stepComplete(b.w, "insert_records", <<b.verification>>, b.extra,
                                        o[1], o[2]))
                /\ faults' = faults + Cost(o)
                /\ last' = Op("insert-records", "insert_records", TRUE,
                              ~b.verification.passed, o[1], o[2])
                /\ Returned
    /\ UNCHANGED <<aiResult, pageAnalysis>>

\* the body of step 'analyze-pages' when the download and analyzePdfPages succeed
AnalyzePagesBody(w, pages) ==
    LET w0 == timedReturns(w, "analyze_pages")
    IN  [w |-> info(info(timedReturns(w0, "analyze_pages"), "analyze_pages",
                         "Page analysis details"), "analyze_pages", "Token usage"),
         verification |-> PagesVerification(pages),
         extra |-> ("total_pages" :> Len(pages))
                   @@ ("costs" :> ("analyze_pages" :> AnalyzePagesCost))]

\* step 'analyze-pages' after stepStart
AnalyzePages ==
    /\ pc = "body" /\ cur = 3
    /\ LET w0 == timedReturns(World, "analyze_pages")
       IN  \/ \E o \in StoreOutcomes :        \* the re-download returns no data
                /\ faults + Outage + Cost(o) <= MaxFaults
                /\ Install(stepFail(w0, "analyze_pages", CallerMessage, o[1], o[2]))
                /\ faults' = faults + Outage + Cost(o)
                /\ last' = Op("analyze-pages", "analyze_pages", TRUE, TRUE, o[1], o[2])
                /\ Threw
                /\ UNCHANGED <<aiResult, pageAnalysis>>
           \/ /\ faults + Outage <= MaxFaults      \* analyzePdfPages throws
              /\ Install(timedThrows(w0, "analyze_pages"))
              /\ faults' = faults + Outage
              /\ last' = Op("analyze-pages", "analyze_pages", FALSE, FALSE, TRUE, TRUE)
              /\ Threw
              /\ UNCHANGED <<aiResult, pageAnalysis>>
           \/ \E pages \in PageAnalyses, o \in StoreOutcomes :
                \E b \in {AnalyzePagesBody(World, pages)} :
                LET v == b.verification
                IN  /\ faults + Bool(v.passed) + Cost(o) <= MaxFaults
                    /\ Install(stepComplete(b.w, "analyze_pages", <<v>>, b.extra, o[1], o[2]))
                    /\ faults' = faults + Bool(v.passed) + Cost(o)
                    /\ last' = Op("analyze-pages", "analyze_pages", TRUE, ~v.passed, o[1], o[2])
                    /\ pageAnalysis' = <<pages>>
                    /\ Returned
                    /\ UNCHANGED aiResult

MatchPassedIfAllMatched(matchedCount, unmatchedCount) == unmatchedCount = 0

\* passed: true, // Photo matching is best-effort
MatchPassed(matchedCount, unmatchedCount) == TRUE

\* the body of step 'match-photos'; itemsRead: the select of the item rows
\* returns them; failing: the page numbers whose photo insert returns an error
MatchPhotosBody(w, pages, itemsRead, failing) ==
    IF w.items = <<>> \/ ~itemsRead
    THEN \* if (!items || items.length === 0): stepComplete and return
         [w |-> w,
          verification |-> [passed |-> TRUE,
                            checks |-> <<[name |-> "items available", passed |-> FALSE,
                                          detail |-> "Skipped"]>>],
          extra |-> EmptyMap]
    ELSE Val({[w |-> r.w,
               verification |->
                  [passed |-> MatchPassed(r.matchedCount, r.unmatchedCount),
                   checks |-> <<[name |-> "photos inserted", passed |-> r.matchedCount > 0,
                                 detail |-> "matchedCount photos"],
                                [name |-> "all codes matched",
                                 passed |-> r.unmatchedCount = 0,
                                 detail |-> IF r.unmatchedCount > 0
                                            THEN "unmatchedCount unmatched"
                                            ELSE "all matched"]>>],
               extra |-> ("photos_matched" :> r.matchedCount)
                         @@ ("photos_unmatched" :> r.unmatchedCount)]
              : r \in {MatchLoop([w |-> info(w, "match_photos", "Found items to match against"),
                                  matchedCount |-> 0, unmatchedCount |-> 0],
                                 pages, 1, w.items, failing)}})

\* step 'match-photos' after stepStart
MatchPhotos ==
    /\ pc = "body" /\ cur = 4
    /\ LET pages == pageAnalysis[1]
           qualifying == {pages[k].page_number : k \in {i \in 1..Len(pages) : Qualifies(pages[i])}}
           run(itemsRead, failing) ==
                \E o \in StoreOutcomes, b \in {MatchPhotosBody(World, pages, itemsRead, failing)} :
                    /\ faults + Bool(itemsRead) + Cardinality(failing) + Cost(o) <= MaxFaults
                    /\ Install(stepComplete(b.w, "match_photos", <<b.verification>>, b.extra,
                                            o[1], o[2]))
                    /\ faults' = faults + Bool(itemsRead) + Cardinality(failing) + Cost(o)
                    /\ last' = Op("match-photos", "match_photos", TRUE, FALSE, o[1], o[2])
       IN  IF items = <<>>
           THEN run(TRUE, {})
           ELSE \/ run(FALSE, {})           \* the select of the item rows returns no data
                \/ \E failing \in SUBSET qualifying : run(TRUE, failing)
    /\ Returned
    /\ UNCHANGED <<aiResult, pageAnalysis>>

\* existingCosts.x?.cost_usd ?? 0
CostOr0(costs, key) == IF key \in DOMAIN costs THEN costs[key] ELSE 0

\* the body of step 'mark-complete'; the flags tell which of its reads return data
\* and whether its update of the violation row is applied
MarkCompleteBody(w, itemsCounted, photosCounted, costsRead, updateOk) ==
    LET itemCount == IF itemsCounted THEN Len(w.items) ELSE 0        \* itemCount ?? 0
        photoCount == IF photosCounted THEN Len(w.photos) ELSE 0
        existingCosts == IF costsRead /\ "costs" \in DOMAIN w.extras
                         THEN w.extras["costs"] ELSE EmptyMap
        totalCost == CostOr0(existingCosts, "ai_parse") + CostOr0(existingCosts, "analyze_pages")
        w0 == info(w, "complete", "Final counts")
    IN  [w |-> IF updateOk THEN [w0 EXCEPT !.status = "PARSED"] ELSE w0,
         verification |->
            [passed |-> itemCount > 0,
             checks |-> <<[name |-> "violation items exist", passed |-> itemCount > 0,
                           detail |-> "itemCount items"],
                          [name |-> "photos exist", passed |-> photoCount > 0,
                           detail |-> "photoCount photos"]>>],
         extra |-> "costs" :> Spread(existingCosts, "total_usd" :> totalCost)]

\* step 'mark-complete' after stepStart
MarkComplete ==
    /\ pc = "body" /\ cur = 5
    /\ \E itemsCounted \in BOOLEAN, photosCounted \in BOOLEAN, costsRead \in BOOLEAN,
          updateOk \in BOOLEAN, o \in StoreOutcomes :
        \E b \in {MarkCompleteBody(World, itemsCounted, photosCounted, costsRead, updateOk)} :
        LET adverse == Bool(itemsCounted) + Bool(photosCounted) + Bool(costsRead)
                       + Bool(updateOk) + Cost(o)
        IN  /\ faults + adverse <= MaxFaults
            /\ Install(stepComplete(b.w, "complete", <<b.verification>>, b.extra, o[1], o[2]))
            /\ faults' = faults + adverse
            /\ last' = Op("mark-complete", "complete", TRUE, ~b.verification.passed, o[1], o[2])
    /\ Returned
    /\ UNCHANGED <<aiResult, pageAnalysis>>

Next ==
    \/ InitStep
    \/ Rebuild
    \/ BeginStep
    \/ AiParse
    \/ InsertRecords
    \/ AnalyzePages
    \/ MatchPhotos
    \/ MarkComplete

Spec == Init /\ [][Next]_vars

\* the executor runs the next step, or the retry, of a run that has not ended
LiveSpec ==
    /\ Spec
    /\ WF_vars(InitStep) /\ WF_vars(BeginStep) /\ WF_vars(AiParse) /\ WF_vars(InsertRecords)
    /\ WF_vars(AnalyzePages) /\ WF_vars(MatchPhotos) /\ WF_vars(MarkComplete)

(***************************************************************************)
(* MatchSpec: step 'match-photos' on any item rows and page classification *)
(***************************************************************************)
\* "12-G DCMR § 309.1", the same with a run of two spaces, the same with the
\* space after the section sign missing, and the lower-case page code
Code309 == <<"1", "2", "-", "G", " ", "D", "C", "M", "R", " ", "§", " ", "3", "0", "9", ".", "1">>
Code309Wide == <<"1", "2", "-", "G", " ", "D", "C", "M", "R", " ", " ", "§", " ", "3", "0", "9", ".", "1">>
Code309Joined == <<"1", "2", "-", "G", " ", "D", "C", "M", "R", " ", " ", "§", "3", "0", "9", ".", "1">>
Code309Lower == <<"1", "2", "-", "g", " ", "d", "c", "m", "r", " ", "§", " ", "3", "0", "9", ".", "1">>

\* violation_items.violation_code: a code, or <<>> for a row without one
MatchItemCodes == {Code309, Code309Wide, Code309Joined, <<>>}
\* pages[].violation_code: null or a code
MatchPageCodes == {<<>>, <<Code309Lower>>, <<CodeC>>}

MatchItemLists ==
    UNION {[1..n -> MatchItemCodes] : n \in 0..MaxItems}
MatchPageLists ==
    UNION {[1..n -> MatchPageCodes \X BOOLEAN] : n \in 1..MaxPages}

\* the row of a run whose first three steps completed and whose 'match-photos'
\* has been marked running
MatchSteps ==
    [i \in 1..Len(StepNames) |->
        [step |-> StepNames[i],
         status |-> IF i < 4 THEN "completed" ELSE IF i = 4 THEN "running" ELSE "pending",
         message |-> IF i <= 4 THEN CallerMessage ELSE NoMessage,
         started_at |-> IF i <= 4 THEN 2 * i ELSE NoTs,
         completed_at |-> IF i < 4 THEN 2 * i + 1 ELSE NoTs]]

\* the body of 'match-photos' about to run in a re-created function context
MatchInit ==
    /\ status = "PARSING"
    /\ parseStatus = "processing"
    /\ metaSteps = MatchSteps
    /\ metaLogs = <<>>
    /\ metaExtras = EmptyMap
    /\ \E codes \in MatchItemLists :
        /\ items = [i \in 1..Len(codes) |->
                        [id |-> i, item_number |-> i, violation_code |-> codes[i]]]
        /\ aiResult = <<Doc("25NOIR", "557 LEBAUM ST",
                            [i \in 1..Len(codes) |-> WorkOrder(i, codes[i])])>>
    /\ \E pl \in MatchPageLists :
        pageAnalysis = <<[k \in 1..Len(pl) |-> Page(k, pl[k][1], pl[k][2])]>>
    /\ photos = <<>>
    /\ lgSteps = <<>>
    /\ lgLogs = <<>>
    /\ lgExtras = EmptyMap
    /\ now = 9
    /\ nlogs = 0
    /\ pc = "body"
    /\ cur = 4
    /\ attempt = 0
    /\ faults = 0
    /\ db = <<>>
    /\ runs = <<>>
    /\ sched = <<>>
    /\ notice = <<>>
    /\ audit = <<>>
    /\ ui = <<>>
    /\ response = <<>>
    /\ last = Op("stepStart", "match_photos", TRUE, FALSE, TRUE, TRUE)

MatchNext == MatchPhotos

MatchSpec == MatchInit /\ [][MatchNext]_vars

(***************************************************************************)
(* MultiSpec: runs of parseNOI at once                                     *)
(***************************************************************************)
\* the violation rows the trigger has created
RecordIds == {1, 2}

\* event deliveries being served at once
MaxRuns == 2

\* times a run is overtaken, between two of its calls, by another run for the
\* same violation row
MaxPreemptions == 2

\* entries generated by different ParseLogger instances are different objects:
\* run r numbers its entries from (r - 1) * LogIdStride + 1
LogIdStride == 100

\* the row POST /api/parse inserts
TriggerRow ==
    [status |-> "NEW", parseStatus |-> "pending", steps |-> TriggerSteps, logs |-> <<>>,
     extras |-> EmptyMap, items |-> <<>>, photos |-> <<>>]

\* parse_metadata as a select returns it
NoSnapshot == [steps |-> <<>>, logs |-> <<>>, extras |-> EmptyMap]

\* parseNOI invoked with event.data.violationId = id, its ParseLogger new
NewRun(r, id, doc, pages) ==
    [id |-> id, doc |-> doc, pages |-> pages, lg |-> NewLogger, now |-> 1,
     nlogs |-> (r - 1) * LogIdStride, cur |-> 0, phase |-> "init",
     existing |-> NoSnapshot, forced |-> ""]

SelectFirstRow(d, id) == d[1]

\* .eq('id', violationId) and .eq('violation_id', violationId): the violation
\* row of the id with its item rows and photo rows
SelectById(d, id) == d[id]

\* the world the run sees: the rows of its violation, its ParseLogger, its clock
WorldOf(d, run) ==
    Val({[status |-> row.status, parseStatus |-> row.parseStatus, steps |-> row.steps,
          logs |-> row.logs, extras |-> row.extras, items |-> row.items,
          photos |-> row.photos, lg |-> run.lg, now |-> run.now, nlogs |-> run.nlogs]
         : row \in {SelectById(d, run.id)}})

\* the rows of violation id after the run's calls
Store(d, id, w) ==
    [d EXCEPT ![id] = [status |-> w.status, parseStatus |-> w.parseStatus,
                       steps |-> w.steps, logs |-> w.logs, extras |-> w.extras,
                       items |-> w.items, photos |-> w.photos]]

\* flush: const { data: existing } = await supabase...select('parse_metadata')
ReadMetadata(w) == [steps |-> w.steps, logs |-> w.logs, extras |-> w.extras]

\* flush from the merge on: it merges into what its select returned and updates
\* the row as it is then
FlushFrom(w, existing, forced) ==
    flush([w EXCEPT !.steps = existing.steps, !.logs = existing.logs,
                    !.extras = existing.extras], forced, TRUE, TRUE)

\* the body of step StepNames[k] of a run, up to stepComplete
BodyOf(k, w, run) ==
    CASE k = 1 -> AiParseBody(w, run.doc)
      [] k = 2 -> InsertRecordsBody(w, run.doc.work_orders)
      [] k = 3 -> AnalyzePagesBody(w, run.pages)
      [] k = 4 -> MatchPhotosBody(w, run.pages, TRUE, {})
      [] k = 5 -> MarkCompleteBody(w, TRUE, TRUE, TRUE, TRUE)

MultiFrame ==
    UNCHANGED <<status, parseStatus, metaSteps, metaLogs, metaExtras, items, photos,
                lgSteps, lgLogs, lgExtras, now, nlogs, pc, cur, attempt, aiResult,
                pageAnalysis, faults, last, notice, audit, ui, response>>

\* two deliveries for the violation row 1, or one for each of the rows 1 and 2
MultiInit ==
    /\ status = "NEW"
    /\ parseStatus = "pending"
    /\ metaSteps = TriggerSteps
    /\ metaLogs = <<>>
    /\ metaExtras = EmptyMap
    /\ items = <<>>
    /\ photos = <<>>
    /\ lgSteps = <<>>
    /\ lgLogs = <<>>
    /\ lgExtras = EmptyMap
    /\ now = 1
    /\ nlogs = 0
    /\ pc = "multi"
    /\ cur = 0
    /\ attempt = 0
    /\ aiResult = <<>>
    /\ pageAnalysis = <<>>
    /\ faults = 0
    /\ last = Op("construct", "", FALSE, FALSE, TRUE, TRUE)
    /\ db = [id \in RecordIds |-> TriggerRow]
    \* the results of parseNOIPdf and of analyzePdfPages the runs are given
    /\ \E ids \in [1..MaxRuns -> RecordIds],
          docs \in [1..MaxRuns ->
                    { Doc("25NOIR", "557 LEBAUM ST", <<WorkOrder(1, CodeA), WorkOrder(2, CodeB)>>),
                      Doc("25NOIR", "557 LEBAUM ST", <<WorkOrder(1, CodeA)>>) }],
          pages \in [1..MaxRuns ->
                     { <<Page(1, <<>>, FALSE), Page(2, <<CodeA>>, TRUE)>>,
                       <<Page(1, <<CodeAIrregular>>, TRUE), Page(2, <<CodeC>>, TRUE)>> }] :
        /\ ids[1] = 1
        /\ runs = [r \in 1..MaxRuns |-> NewRun(r, ids[r], docs[r], pages[r])]
    /\ sched = [running |-> 0, preemptions |-> 0]
    /\ notice = <<>>
    /\ audit = <<>>
    /\ ui = <<>>
    /\ response = <<>>

\* the executor serves run r next. A call of r that comes between two calls of
\* another run for the same violation row is a preemption of that run
Schedule(r) ==
    LET q == sched.running
        preempts == /\ q \notin {0, r}
                    /\ runs[q].phase # "done"
                    /\ runs[q].id = runs[r].id
        contended == \E o \in 1..MaxRuns : o # r /\ runs[o].id = runs[r].id
    IN  /\ preempts => sched.preemptions < MaxPreemptions
        /\ sched' = [running |-> IF contended THEN r ELSE 0,
                      preemptions |-> IF preempts THEN sched.preemptions + 1
                                      ELSE sched.preemptions]

\* step 'init' of run r
RunInit(r) ==
    /\ runs[r].phase = "init"
    /\ \E w \in {InitBody(WorldOf(db, runs[r]), TRUE)} :
        /\ db' = Store(db, runs[r].id, w)
        /\ runs' = [runs EXCEPT ![r].lg = w.lg, ![r].nlogs = w.nlogs, ![r].now = w.now + 1,
                                ![r].cur = 1, ![r].phase = "start"]
    /\ Schedule(r)
    /\ MultiFrame

\* stepStart of run r up to the select of its flush
RunStepStart(r) ==
    /\ runs[r].phase = "start"
    /\ \E w \in {stepStartPrep(WorldOf(db, runs[r]), StepNames[runs[r].cur])} :
        runs' = [runs EXCEPT ![r].lg = w.lg, ![r].nlogs = w.nlogs,
                             ![r].existing = ReadMetadata(w), ![r].forced = "",
                             ![r].phase = "start-update"]
    /\ UNCHANGED db
    /\ Schedule(r)
    /\ MultiFrame

\* the body of the step of run r and stepComplete up to the select of its flush
RunBody(r) ==
    /\ runs[r].phase = "body"
    /\ \E b \in {BodyOf(runs[r].cur, WorldOf(db, runs[r]), runs[r])} :
       \E p \in {stepCompletePrep(b.w, StepNames[runs[r].cur], <<b.verification>>, b.extra)} :
        /\ db' = Store(db, runs[r].id, p.w)
        /\ runs' = [runs EXCEPT ![r].lg = p.w.lg, ![r].nlogs = p.w.nlogs,
                                ![r].existing = ReadMetadata(p.w), ![r].forced = p.forced,
                                ![r].phase = "body-update"]
    /\ Schedule(r)
    /\ MultiFrame

\* the update of the flush of run r; the step function then returns
RunUpdate(r) ==
    /\ runs[r].phase \in {"start-update", "body-update"}
    /\ \E w \in {FlushFrom(WorldOf(db, runs[r]), runs[r].existing, runs[r].forced)} :
        /\ db' = Store(db, runs[r].id, w)
        /\ runs' = [runs EXCEPT
                      ![r].lg = w.lg, ![r].nlogs = w.nlogs, ![r].now = w.now + 1,
                      ![r].existing = NoSnapshot, ![r].forced = "",
                      ![r].cur = IF runs[r].phase = "body-update" /\ @ < Len(StepNames)
                                 THEN @ + 1 ELSE @,
                      ![r].phase = IF runs[r].phase = "start-update" THEN "body"
                                   ELSE IF runs[r].cur < Len(StepNames) THEN "start"
                                   ELSE "done"]
    /\ Schedule(r)
    /\ MultiFrame

MultiNext ==
    \E r \in 1..MaxRuns :
        \/ RunInit(r)
        \/ RunStepStart(r)
        \/ RunBody(r)
        \/ RunUpdate(r)

MultiSpec == MultiInit /\ [][MultiNext]_vars

(***************************************************************************)
(* NoticeSpec: the notice-level update of step 'insert-records'            *)
(***************************************************************************)
\* work orders of an extraction result
MaxOrders == 3

Digits == <<"0", "1", "2", "3", "4", "5", "6", "7", "8", "9">>
IsDigit(c) == \E i \in 1..10 : Digits[i] = c

\* the decimal value of a sequence of digits
RECURSIVE DecimalValue(_)
DecimalValue(ds) ==
    IF ds = <<>> THEN 0
    ELSE 10 * DecimalValue(SubSeq(ds, 1, Len(ds) - 1)) + (CHOOSE i \in 1..10 : Digits[i] = ds[Len(ds)]) - 1

\* the longest prefix of s made of digits
RECURSIVE LeadingDigits(_)
LeadingDigits(s) ==
    IF s # <<>> /\ IsDigit(Head(s)) THEN <<Head(s)>> \o LeadingDigits(Tail(s)) ELSE <<>>

\* parseInt(text): <<>> for NaN, <<n>> for a number
parseInt(text) ==
    LET t == SkipSpaces(text)
        negative == t # <<>> /\ Head(t) = "-"
        unsigned == IF t # <<>> /\ Head(t) \in {"-", "+"} THEN Tail(t) ELSE t
        ds == LeadingDigits(unsigned)
    IN  IF ds = <<>> THEN <<>>
        ELSE <<IF negative THEN 0 - DecimalValue(ds) ELSE DecimalValue(ds)>>

\* dateStr.split('/')
RECURSIVE Split(_)
Split(s) ==
    IF \A i \in 1..Len(s) : s[i] # "/" THEN <<s>>
    ELSE LET k == CHOOSE i \in 1..Len(s) : s[i] = "/" /\ \A j \in 1..(i - 1) : s[j] # "/"
         IN  <<SubSeq(s, 1, k - 1)>> \o Split(SubSeq(s, k + 1, Len(s)))

\* part.padStart(2, '0')
padStart2(part) ==
    IF Len(part) >= 2 THEN part
    ELSE IF Len(part) = 1 THEN <<"0">> \o part
    ELSE <<"0", "0">>

\* parseDate: <<>> for null, <<text>> for a string
parseDate(dateStr) ==
    LET parts == Split(dateStr)
    IN  IF dateStr = <<>> THEN <<>>
        ELSE IF Len(parts) # 3 THEN <<>>
        ELSE <<parts[3] \o <<"-">> \o padStart2(parts[1]) \o <<"-">> \o padStart2(parts[2])>>

IsLeapYear(y) == (y % 4 = 0 /\ y % 100 # 0) \/ y % 400 = 0

DaysInMonth(y, m) ==
    IF m = 2 THEN (IF IsLeapYear(y) THEN 29 ELSE 28)
    ELSE IF m \in {4, 6, 9, 11} THEN 30 ELSE 31

\* new Date(text) for a date-only text: <<>> for an invalid date, else
\* <<[y, m, d]>>, midnight UTC of that day
NewDate(text) ==
    LET wellFormed == /\ Len(text) = 10
                      /\ text[5] = "-" /\ text[8] = "-"
                      /\ \A i \in {1, 2, 3, 4, 6, 7, 9, 10} : IsDigit(text[i])
        y == DecimalValue(SubSeq(text, 1, 4))
        m == DecimalValue(SubSeq(text, 6, 7))
        d == DecimalValue(SubSeq(text, 9, 10))
    IN  IF wellFormed /\ m \in 1..12 /\ d \in 1..DaysInMonth(y, m)
        THEN <<[y |-> y, m |-> m, d |-> d]>>
        ELSE <<>>

\* deadline.setDate(day): a day number past the end of the month rolls over into
\* the following months, one below 1 into the preceding ones
RECURSIVE setDate(_, _)
setDate(date, day) ==
    IF day > DaysInMonth(date.y, date.m)
    THEN setDate(IF date.m = 12 THEN [y |-> date.y + 1, m |-> 1, d |-> 1]
                 ELSE [y |-> date.y, m |-> date.m + 1, d |-> 1],
                 day - DaysInMonth(date.y, date.m))
    ELSE IF day < 1
    THEN LET prev == IF date.m = 1 THEN [y |-> date.y - 1, m |-> 12, d |-> 1]
                     ELSE [y |-> date.y, m |-> date.m - 1, d |-> 1]
         IN  setDate(prev, day + DaysInMonth(prev.y, prev.m))
    ELSE [date EXCEPT !.d = day]

\* n as width decimal digits
RECURSIVE Pad(_, _)
Pad(n, width) ==
    IF width = 0 THEN <<>> ELSE Pad(n \div 10, width - 1) \o <<Digits[(n % 10) + 1]>>

\* deadline.toISOString().split('T')[0]
IsoDate(date) == Pad(date.y, 4) \o <<"-">> \o Pad(date.m, 2) \o <<"-">> \o Pad(date.d, 2)

\* Math.min(...values) of a non-empty sequence
MathMin(values) ==
    CHOOSE v \in SeqRange(values) : \A u \in SeqRange(values) : v <= u

\* Math.min(...work_orders.map(wo => parseInt(wo.abatement_deadline) || 60))
shortestDeadline(deadlines) ==
    MathMin([i \in 1..Len(deadlines) |->
                IF parseInt(deadlines[i]) \in {<<>>, <<0>>} THEN 60
                ELSE parseInt(deadlines[i])[1]])

MaxPriority(priorities) ==
    CHOOSE v \in SeqRange(priorities \o <<3>>) : \A u \in SeqRange(priorities \o <<3>>) : v >= u

\* Math.min(...work_orders.map(wo => wo.priority), 3)
priority(priorities) == MathMin(priorities \o <<3>>)

\* the notice-level part of step 'insert-records': threw when toISOString raises
\* on an invalid date (with serviceDate as parseDate returned it), else the
\* columns of the update
NoticeUpdate(date_of_service, orders) ==
    LET serviceDate == parseDate(date_of_service)
        deadlines == [i \in 1..Len(orders) |-> orders[i].abatement_deadline]
        deadline == NewDate(serviceDate[1])
    IN  IF serviceDate # <<>> /\ Len(orders) > 0 /\ deadline = <<>>
        THEN [threw |-> TRUE, date_of_service |-> serviceDate]
        ELSE [threw |-> FALSE,
              date_of_service |-> serviceDate,
              abatement_deadline |->
                  IF serviceDate # <<>> /\ Len(orders) > 0
                  THEN <<IsoDate(setDate(deadline[1],
                                         deadline[1].d + shortestDeadline(deadlines)))>>
                  ELSE <<>>,
              priority |-> priority([i \in 1..Len(orders) |-> orders[i].priority])]

\* texts of notice_level_data.date_of_service
ServiceDates ==
    { <<"0", "1", "/", "0", "1", "/", "2", "0", "2", "5">>,
      <<"1", "/", "5", "/", "2", "0", "2", "5">>,
      <<"1", "2", "/", "1", "5", "/", "2", "0", "2", "5">>,
      <<"0", "2", "/", "1", "0", "/", "2", "0", "2", "4">>,
      <<>>,
      <<"2", "0", "2", "5", "-", "0", "1", "-", "0", "1">>,
      <<"0", "1", "/", "2", "0", "2", "5">>,
      <<"1", "/", "2", "/", "3", "/", "4">>,
      <<"a", "b", "/", "c", "d", "/", "e", "f", "g", "h">>,
      <<"/", "/">>,
      <<"1", "3", "/", "4", "5", "/", "2", "0", "2", "5">> }

\* abatement_deadline and priority of a work order
NoticeOrder(deadline, p) == [abatement_deadline |-> deadline, priority |-> p]

NoticeOrders ==
    { NoticeOrder(<<"6", "0", " ", "D", "a", "y", "s">>, 2),
      NoticeOrder(<<"3", "0", " ", "D", "a", "y", "s">>, 1),
      NoticeOrder(<<"n", "o", "t", " ", "a", " ", "n", "u", "m", "b", "e", "r">>, 3),
      NoticeOrder(<<"9", "0", " ", "D", "a", "y", "s">>, 2),
      NoticeOrder(<<"0", " ", "D", "a", "y", "s">>, 3) }

NoticeOrderLists == UNION {[1..n -> NoticeOrders] : n \in 0..MaxOrders}

\* an extraction result has been memoized; 'insert-records' has called stepStart
NoticeInit ==
    /\ status = "PARSING"
    /\ parseStatus = "processing"
    /\ metaSteps = TriggerSteps
    /\ metaLogs = <<>>
    /\ metaExtras = EmptyMap
    /\ items = <<>>
    /\ photos = <<>>
    /\ lgSteps = <<>>
    /\ lgLogs = <<>>
    /\ lgExtras = EmptyMap
    /\ now = 1
    /\ nlogs = 0
    /\ pc = "body"
    /\ cur = 2
    /\ attempt = 0
    /\ \E d \in ServiceDates, orders \in NoticeOrderLists :
        aiResult = <<[date_of_service |-> d, work_orders |-> orders]>>
    /\ pageAnalysis = <<>>
    /\ faults = 0
    /\ last = Op("stepStart", "insert_records", TRUE, FALSE, TRUE, TRUE)
    /\ db = <<>>
    /\ runs = <<>>
    /\ sched = <<>>
    /\ notice = <<>>
    /\ audit = <<>>
    /\ ui = <<>>
    /\ response = <<>>

\* 'insert-records' from the parse of the service date to the update of the
\* violation row
UpdateNotice ==
    /\ pc = "body"
    /\ notice' = <<NoticeUpdate(aiResult[1].date_of_service, aiResult[1].work_orders)>>
    /\ pc' = IF notice'[1].threw THEN "threw" ELSE "updated"
    /\ UNCHANGED <<status, parseStatus, metaSteps, metaLogs, metaExtras, items, photos,
                   lgSteps, lgLogs, lgExtras, now, nlogs, cur, attempt, aiResult,
                   pageAnalysis, faults, last, db, runs, sched, audit, ui, response>>

NoticeNext == UpdateNotice

NoticeSpec == NoticeInit /\ [][NoticeNext]_vars

(***************************************************************************)
(* StatusSpec: the business status under a run and user requests           *)
(***************************************************************************)
\* status changes a user requests from the detail page
MaxRequests == 3

\* violation_status
Statuses ==
    {"NEW", "PARSING", "PARSED", "ASSIGNED", "IN_PROGRESS", "AWAITING_PHOTOS",
     "PHOTOS_UPLOADED", "READY_FOR_SUBMISSION", "SUBMITTED", "APPROVED", "REJECTED",
     "ADDITIONAL_INFO_REQUESTED", "CLOSED"}

VALID_TRANSITIONS ==
    [from \in Statuses |->
        CASE from = "NEW" -> <<"PARSING", "ASSIGNED", "CLOSED">>
          [] from = "PARSING" -> <<"PARSED", "NEW">>
          [] from = "PARSED" -> <<"ASSIGNED", "CLOSED">>
          [] from = "ASSIGNED" -> <<"IN_PROGRESS", "CLOSED">>
          [] from = "IN_PROGRESS" -> <<"AWAITING_PHOTOS", "CLOSED">>
          [] from = "AWAITING_PHOTOS" -> <<"PHOTOS_UPLOADED", "IN_PROGRESS">>
          [] from = "PHOTOS_UPLOADED" -> <<"READY_FOR_SUBMISSION", "AWAITING_PHOTOS">>
          [] from = "READY_FOR_SUBMISSION" -> <<"SUBMITTED", "AWAITING_PHOTOS">>
          [] from = "SUBMITTED" -> <<"APPROVED", "REJECTED", "ADDITIONAL_INFO_REQUESTED">>
          [] from = "APPROVED" -> <<"CLOSED">>
          [] from = "REJECTED" -> <<"IN_PROGRESS">>
          [] from = "ADDITIONAL_INFO_REQUESTED" -> <<"AWAITING_PHOTOS", "IN_PROGRESS">>
          [] from = "CLOSED" -> <<>>]

canTransitionAnywhere(from, to) == to \in Statuses

\* VALID_TRANSITIONS[from]?.includes(to) ?? false
canTransition(from, to) ==
    IF from \in DOMAIN VALID_TRANSITIONS
    THEN \E i \in 1..Len(VALID_TRANSITIONS[from]) : VALID_TRANSITIONS[from][i] = to
    ELSE FALSE

getNextStatusesRejectedFinal(current) ==
    IF current = "REJECTED" THEN <<>> ELSE VALID_TRANSITIONS[current]

\* VALID_TRANSITIONS[current] ?? []
getNextStatuses(current) ==
    IF current \in DOMAIN VALID_TRANSITIONS THEN VALID_TRANSITIONS[current] ELSE <<>>

TriggerAlwaysLogs(old, new, log) == Append(log, [old_values |-> old, new_values |-> new])

\* trg_violations_status_change: audit_log after an update of the violation row
\* from status old to status new
log_violation_status_change(old, new, log) ==
    IF old # new THEN Append(log, [old_values |-> old, new_values |-> new]) ELSE log

\* the detail page after it has set the violation it shows
Shown(violationStatus, requests) ==
    [view |-> violationStatus, offered |-> getNextStatuses(violationStatus),
     requests |-> requests]

StatusFrame ==
    UNCHANGED <<parseStatus, metaSteps, metaLogs, metaExtras, items, photos,
                lgSteps, lgLogs, lgExtras, now, nlogs, cur, attempt, aiResult,
                pageAnalysis, faults, last, db, runs, sched, notice, response>>

\* a violation row created by the parse trigger, its run not yet started, or a
\* row the import created with the status it was given; a user has its page open
StatusInit ==
    /\ status \in Statuses
    /\ pc \in (IF status = "NEW" THEN {"init", "none"} ELSE {"none"})
    /\ parseStatus = "pending"
    /\ metaSteps = TriggerSteps
    /\ metaLogs = <<>>
    /\ metaExtras = EmptyMap
    /\ items = <<>>
    /\ photos = <<>>
    /\ lgSteps = <<>>
    /\ lgLogs = <<>>
    /\ lgExtras = EmptyMap
    /\ now = 1
    /\ nlogs = 0
    /\ cur = 0
    /\ attempt = 0
    /\ aiResult = <<>>
    /\ pageAnalysis = <<>>
    /\ faults = 0
    /\ last = Op("construct", "", FALSE, FALSE, TRUE, TRUE)
    /\ db = <<>>
    /\ runs = <<>>
    /\ sched = <<>>
    /\ notice = <<>>
    /\ audit = <<>>
    /\ ui = Shown(status, 0)
    /\ response = <<>>

\* an update of the violation row that sets status to `to`: the trigger runs
Update(to) ==
    /\ status' = to
    /\ audit' = log_violation_status_change(status, to, audit)

\* the detail page fetches the violation
LoadPage ==
    /\ ui # Shown(status, ui.requests)
    /\ ui' = Shown(status, ui.requests)
    /\ UNCHANGED <<status, audit, pc>>
    /\ StatusFrame

\* handleStatusChange(newStatus) for a status the page offers, and PATCH: the
\* update is applied and the page shows the updated row, or it returns an error
ChangeStatus ==
    /\ ui.requests < MaxRequests
    /\ \E k \in 1..Len(ui.offered), applied \in BOOLEAN :
        IF applied
        THEN /\ Update(ui.offered[k])
             /\ ui' = Shown(ui.offered[k], ui.requests + 1)
        ELSE /\ UNCHANGED <<status, audit>>
             /\ ui' = [ui EXCEPT !.requests = @ + 1]
    /\ UNCHANGED pc
    /\ StatusFrame

\* PATCH with other columns than status
ChangeOther ==
    /\ ui.requests < MaxRequests
    /\ Update(status)
    /\ ui' = [ui EXCEPT !.requests = @ + 1]
    /\ UNCHANGED pc
    /\ StatusFrame

\* the status update of step 'init' of the run
RunMarksParsing ==
    /\ pc = "init"
    /\ \E updateOk \in BOOLEAN : Update(InitBody(World, updateOk).status)
    /\ pc' = "running"
    /\ UNCHANGED ui
    /\ StatusFrame

\* the status update of step 'mark-complete' of the run
RunMarksParsed ==
    /\ pc = "running"
    /\ \E updateOk \in BOOLEAN :
        Update(MarkCompleteBody(World, TRUE, TRUE, TRUE, updateOk).w.status)
    /\ pc' = "done"
    /\ UNCHANGED ui
    /\ StatusFrame

StatusNext ==
    \/ LoadPage
    \/ ChangeStatus
    \/ ChangeOther
    \/ RunMarksParsing
    \/ RunMarksParsed

StatusSpec == StatusInit /\ [][StatusNext]_vars

(***************************************************************************)
(* GeminiSpec: the extraction client on a response of the model            *)
(***************************************************************************)
\* elements of an array in a response
MaxElements == 2

\* a JSON value: its type, whether JavaScript takes it as true, and for an array
\* its elements: "complete" for an object with every field, "bare" for an object
\* without fields, "null" for null
Json(type, truthy, elems) == [type |-> type, truthy |-> truthy, elems |-> elems]

\* the property is not there: undefined
Undefined == Json("undefined", FALSE, <<>>)

ElementLists == UNION {[1..n -> {"complete", "bare", "null"}] : n \in 0..MaxElements}

\* what a property of the response object can hold
Members ==
    {Undefined, Json("null", FALSE, <<>>), Json("string", FALSE, <<>>),
     Json("string", TRUE, <<>>), Json("number", TRUE, <<>>), Json("object", TRUE, <<>>)}
    \cup {Json("array", TRUE, elems) : elems \in ElementLists}

\* what JSON.parse returns: a value that is not an object, or an object with the
\* properties it holds
Parsed(type, nld, wos, pages) ==
    [type |-> type, notice_level_data |-> nld, work_orders |-> wos, pages |-> pages]

\* response.text (undefined, the empty text, a text that is not JSON, or JSON)
\* and what JSON.parse makes of it
NoiResponses ==
    {[text |-> t, parsed |-> Parsed("undefined", Undefined, Undefined, Undefined)] :
        t \in {"undefined", "empty", "invalid"}}
    \cup {[text |-> "json", parsed |-> Parsed(ty, Undefined, Undefined, Undefined)] :
            ty \in {"null", "number", "string", "array"}}
    \cup {[text |-> "json", parsed |-> Parsed("object", nld, wos, Undefined)] :
            nld \in {m \in Members : m.type # "array"}, wos \in Members}

PageResponses ==
    {[text |-> t, parsed |-> Parsed("undefined", Undefined, Undefined, Undefined)] :
        t \in {"undefined", "empty", "invalid"}}
    \cup {[text |-> "json", parsed |-> Parsed(ty, Undefined, Undefined, Undefined)] :
            ty \in {"null", "number", "string", "array"}}
    \cup {[text |-> "json", parsed |-> Parsed("object", Undefined, Undefined, pages)] :
            pages \in Members}

IsArrayOrSet(m) == m.type # "null"

\* Array.isArray(value)
IsArray(m) == m.type = "array"

\* throw new Error(message), and return value
Raised(message) == [raised |-> TRUE, message |-> message, result |-> <<>>]
Result(value) == [raised |-> FALSE, message |-> "", result |-> <<value>>]

\* parseNOIPdf from `const text = response.text` on
parseNOIPdf(r) ==
    IF r.text \in {"undefined", "empty"} THEN Raised("empty response")
    ELSE IF r.text = "invalid" THEN Raised("invalid JSON")
    ELSE IF r.parsed.type = "null" THEN Raised("TypeError")
    ELSE IF ~r.parsed.notice_level_data.truthy THEN Raised("Missing notice_level_data")
    ELSE IF ~IsArray(r.parsed.work_orders) THEN Raised("Missing work_orders array")
    ELSE LET wos == r.parsed.work_orders.elems
         IN  \* work_orders.every(wo => !!wo.violation_code) reads every element up
             \* to the first one without a code
             IF \E i \in 1..Len(wos) : wos[i] = "null" /\ \A j \in 1..(i - 1) : wos[j] = "complete"
             THEN Raised("TypeError")
             ELSE Result([parsed |-> r.parsed, work_order_count |-> Len(wos)])

\* analyzePdfPages from `const text = response.text` on
analyzePdfPages(r) ==
    IF r.text \in {"undefined", "empty"} THEN Raised("empty response")
    ELSE IF r.text = "invalid" THEN Raised("invalid JSON")
    ELSE IF r.parsed.type = "null" THEN Raised("TypeError")
    ELSE IF ~IsArray(r.parsed.pages) THEN Raised("Missing pages array")
    ELSE LET pages == r.parsed.pages.elems
         IN  \* pages.filter(p => p.is_evidence_photo) reads every element
             IF \E i \in 1..Len(pages) : pages[i] = "null"
             THEN Raised("TypeError")
             ELSE Result([analysis |-> r.parsed, total_pages |-> Len(pages)])

\* generateContent has returned a response
GeminiInit ==
    /\ status = "PARSING"
    /\ parseStatus = "processing"
    /\ metaSteps = TriggerSteps
    /\ metaLogs = <<>>
    /\ metaExtras = EmptyMap
    /\ items = <<>>
    /\ photos = <<>>
    /\ lgSteps = <<>>
    /\ lgLogs = <<>>
    /\ lgExtras = EmptyMap
    /\ now = 1
    /\ nlogs = 0
    /\ pc = "gemini"
    /\ cur = 0
    /\ attempt = 0
    /\ aiResult = <<>>
    /\ pageAnalysis = <<>>
    /\ faults = 0
    /\ last = Op("construct", "", FALSE, FALSE, TRUE, TRUE)
    /\ db = <<>>
    /\ runs = <<>>
    /\ sched = <<>>
    /\ notice = <<>>
    /\ audit = <<>>
    /\ ui = <<>>
    /\ \/ \E r \in NoiResponses : response = [call |-> "parseNOIPdf", response |-> r, outcome |-> <<>>]
       \/ \E r \in PageResponses : response = [call |-> "analyzePdfPages", response |-> r, outcome |-> <<>>]

\* parseNOIPdf handles the response
HandleNoi ==
    /\ response.call = "parseNOIPdf" /\ response.outcome = <<>>
    /\ response' = [response EXCEPT !.outcome = <<parseNOIPdf(response.response)>>]
    /\ UNCHANGED <<status, parseStatus, metaSteps, metaLogs, metaExtras, items, photos,
                lgSteps, lgLogs, lgExtras, now, nlogs, pc, cur, attempt, aiResult,
                pageAnalysis, faults, last, db, runs, sched, notice, audit, ui>>

\* analyzePdfPages handles the response
HandlePages ==
    /\ response.call = "analyzePdfPages" /\ response.outcome = <<>>
    /\ response' = [response EXCEPT !.outcome = <<analyzePdfPages(response.response)>>]
    /\ UNCHANGED <<status, parseStatus, metaSteps, metaLogs, metaExtras, items, photos,
                lgSteps, lgLogs, lgExtras, now, nlogs, pc, cur, attempt, aiResult,
                pageAnalysis, faults, last, db, runs, sched, notice, audit, ui>>

GeminiNext == HandleNoi \/ HandlePages

GeminiSpec == GeminiInit /\ [][GeminiNext]_vars

(***************************************************************************)
(* Claims about the ledger                                                 *)
(***************************************************************************)
Range(seq) == {seq[i] : i \in 1..Len(seq)}

StatusOf(steps, name) ==
    IF FindIndex(steps, name) = 0 THEN "absent" ELSE steps[FindIndex(steps, name)].status

\* the derivation the specification states: completed needs all five known steps
StatedStatus(steps, old) ==
    IF \E i \in 1..Len(steps) : steps[i].status = "failed" THEN "failed"
    ELSE IF \A n \in KnownSteps : StatusOf(steps, n) = "completed" THEN "completed"
    ELSE IF \E i \in 1..Len(steps) : steps[i].status = "running" THEN "processing"
    ELSE old

\* C1: a flush without a forced status writes parse_status 'failed' iff some merged
\* step is failed, else 'completed' iff all five known steps are completed, else
\* 'processing' iff some step is running, else leaves it unchanged; also when the
\* persisted collection holds fewer than five entries. Stated for flushes whose
\* store calls, and all before them, succeeded.
C1_StatusDerivation ==
    [][(last'.flushed /\ ~last'.forced /\ faults' = 0)
        => parseStatus' = StatedStatus(metaSteps', parseStatus)]_vars

\* C6: the persisted steps hold at most one entry per step name, after any sequence
\* of stepStart, stepComplete, stepFail and flush calls by successive instances.
C6_OneEntryPerStep ==
    \A i, j \in 1..Len(metaSteps) : metaSteps[i].step = metaSteps[j].step => i = j

\* a step that was started and later completed, its entry updated in place among
\* the five of the trigger
C6_Witness ==
    /\ pc = "api"
    /\ Len(metaSteps) = Len(StepNames)
    /\ \E s \in LedgerSteps :
        /\ StatusOf(metaSteps, s) = "completed"
        /\ \E a, b \in Range(metaLogs) :
            /\ a.step = s /\ a.message = "STARTED"
            /\ b.step = s /\ b.message = "COMPLETED"

\* C7: a flush that follows a flush of the same ParseLogger (which persisted) with
\* no step change in between leaves the persisted steps as they are, and appends no
\* log entry already persisted.
C7_FlushIdempotent ==
    [][(last.flushed /\ last.readOk /\ last.writeOk /\ last'.op = "flush")
        => /\ metaSteps' = metaSteps
           /\ \A i \in 1..Len(metaLogs') :
                i > Len(metaLogs) => metaLogs'[i] \notin Range(metaLogs)]_vars

\* C9: a flush that merges an in-memory step without started_at into a persisted
\* entry of the same name with started_at = T1 leaves started_at = T1. Stated for
\* flushes whose store calls, and all before them, succeeded.
C9_StartedAtPreserved ==
    [][(last'.flushed /\ faults' = 0)
        => \A i \in 1..Len(lgSteps') :
            LET k == FindIndex(metaSteps, lgSteps'[i].step)
            IN  (k > 0 /\ lgSteps'[i].started_at = NoTs /\ metaSteps[k].started_at # NoTs)
                => \E j \in 1..Len(metaSteps') :
                    /\ metaSteps'[j].step = lgSteps'[i].step
                    /\ metaSteps'[j].started_at = metaSteps[k].started_at]_vars

\* C10: once a step's persisted entry has a started_at, no later merge of the same
\* step changes it, also when the step is started again. Stated for merges whose
\* store calls, and all before them, succeeded.
C10_StartedAtStable ==
    [][\A i \in 1..Len(metaSteps), j \in 1..Len(metaSteps') :
        (faults' = 0 /\ metaSteps[i].started_at # NoTs /\ metaSteps'[j].step = metaSteps[i].step)
            => metaSteps'[j].started_at = metaSteps[i].started_at]_vars

(***************************************************************************)
(* Claims about the run                                                    *)
(***************************************************************************)
\* C2: a step that raised on its first attempt and on both retries, whatever the
\* cause, is persisted 'failed' and parse_status is 'failed' from then on.
C2_ExhaustedStepIsFailed ==
    pc = "dead" => /\ StatusOf(metaSteps, StepNames[cur]) = "failed"
                   /\ parseStatus = "failed"

\* C3: a step recorded 'failed' raises, so no later step is started while an
\* earlier step is persisted 'failed'.
C3_NoStepAfterFailedStep ==
    \A k \in 1..Len(StepNames) :
        (k < cur /\ pc \in {"body", "done", "dead"})
            => StatusOf(metaSteps, StepNames[k]) # "failed"

\* C4: after a run in which ai_parse and analyze_pages completed and recorded their
\* usage, the persisted costs hold costs.ai_parse, costs.analyze_pages and
\* total_usd = their sum. Stated for runs without any adverse outcome.
C4_CostsFolded ==
    (/\ pc = "done"
     /\ faults = 0
     /\ StatusOf(metaSteps, "ai_parse") = "completed"
     /\ StatusOf(metaSteps, "analyze_pages") = "completed")
        => /\ "costs" \in DOMAIN metaExtras
           /\ {"ai_parse", "analyze_pages", "total_usd"} \subseteq DOMAIN metaExtras["costs"]
           /\ metaExtras["costs"]["total_usd"]
                = metaExtras["costs"]["ai_parse"] + metaExtras["costs"]["analyze_pages"]

\* the pages flagged as evidence with a non-null code
QualifyingPages(pages) ==
    {k \in 1..Len(pages) : pages[k].is_evidence_photo /\ pages[k].violation_code # <<>>}

HappyFinal ==
    /\ pc = "done"
    /\ \A n \in KnownSteps : StatusOf(metaSteps, n) = "completed"
    /\ Len(metaSteps) = Len(StepNames)
    /\ parseStatus = "completed"
    /\ status = "PARSED"
    /\ Len(items) = Len(aiResult[1].work_orders)
    /\ Len(photos) = Cardinality(QualifyingPages(pageAnalysis[1]))
    /\ \A k \in QualifyingPages(pageAnalysis[1]) :
        Cardinality({i \in 1..Len(photos) :
                        photos[i].page_number = pageAnalysis[1][k].page_number}) = 1

IsPrefix(a, b) == Len(a) <= Len(b) /\ SubSeq(b, 1, Len(a)) = a

\* C8: every flush whose store calls succeed leaves the persisted logs a prefix of
\* the new ones, followed by the buffered entries and then the entries generated
\* since, in generation order, and persists no entry twice.
C8_LogsAppendOnly ==
    [][(last'.flushed /\ last'.readOk /\ last'.writeOk)
        => LET appended == SubSeq(metaLogs', Len(metaLogs) + 1, Len(metaLogs'))
           IN  /\ IsPrefix(metaLogs, metaLogs')
               /\ IsPrefix(lgLogs, appended)
               /\ Len(appended) = Len(lgLogs) + (nlogs' - nlogs)
               /\ \A i \in 1..(nlogs' - nlogs) : appended[Len(lgLogs) + i].id = nlogs + i
               /\ \A i, j \in 1..Len(appended) : i < j => appended[i].id < appended[j].id
               /\ \A i, j \in 1..Len(metaLogs') : metaLogs'[i] = metaLogs'[j] => i = j]_vars

\* a flush that persisted an entry buffered before the step and the step's own
C8_Witness ==
    /\ last.flushed
    /\ faults = 0
    /\ cur = 5
    /\ \E i \in 1..Len(metaLogs) : metaLogs[i].message = "Parse pipeline started"
    /\ \E i \in 1..Len(metaLogs) : metaLogs[i].message = "Final counts"

\* C11: within one run at most one persisted step is 'running' at any time, and
\* step k+1 is marked running only after the terminal (completed or failed)
\* write of step k is committed to the store.
C11_SequentialSteps ==
    /\ Cardinality({i \in 1..Len(metaSteps) : metaSteps[i].status = "running"}) <= 1
    /\ \A k \in 1..(Len(StepNames) - 1) :
        StatusOf(metaSteps, StepNames[k + 1]) = "running"
            => StatusOf(metaSteps, StepNames[k]) \in {"completed", "failed"}

\* C14: recording a step as failed changes only parse_metadata and parse_status:
\* the business status after a step is recorded failed is the one it had when the
\* step started (the step function that records the failure leaves it as it was).
C14_FailureKeepsStatus ==
    [][(last'.flushed /\ last'.forced /\ StatusOf(metaSteps', last'.step) = "failed")
        => status' = status]_vars

\* C15: stepComplete called with a verification whose outcome is FAIL never
\* records the step as completed: the in-memory entry is 'failed', and when the
\* update is applied the persisted entry is 'failed', parse_status is 'failed' and
\* the recorded message names every check that did not pass with its detail.
C15_FailedVerificationFails ==
    [][(last'.op = "stepComplete" /\ last'.forced)
        => LET mine == lgSteps'[FindIndex(lgSteps', last'.step)]
               kept == metaSteps'[FindIndex(metaSteps', last'.step)]
               checks == FailingVerification[1].checks
           IN  /\ mine.status = "failed"
               /\ last'.writeOk
                    => /\ kept.status = "failed"
                       /\ parseStatus' = "failed"
                       /\ Len(kept.message) = 1 + Cardinality({i \in 1..Len(checks) :
                                                                ~checks[i].passed})
                       /\ \A i \in 1..Len(checks) :
                            ~checks[i].passed
                                => \E j \in 2..Len(kept.message) :
                                    /\ kept.message[j][1] = checks[i].name
                                    /\ kept.message[j][2] = DetailOf(checks[i])]_vars

\* a stepComplete with a failing verification on a step persisted 'running'
\* whose update was applied
C15_Witness ==
    /\ pc = "api"
    /\ last.op = "stepComplete" /\ last.forced /\ last.writeOk
    /\ StatusOf(metaSteps, last.step) = "failed"
    /\ \E i \in 1..Len(metaLogs) : metaLogs[i].step = last.step /\ metaLogs[i].message = "STARTED"

(***************************************************************************)
(* Claims about photo matching                                             *)
(***************************************************************************)
\* the photo rows the step has added
NewPhotos == SubSeq(photos', Len(photos) + 1, Len(photos'))

\* the rows among s written for page number n
RowsOfPage(s, n) == {i \in 1..Len(s) : s[i].page_number = n}

\* the items whose code equals the page code once both are normalized
SameCodeItems(code) ==
    {j \in 1..Len(items) : /\ items[j].violation_code # <<>>
                           /\ normalizeCode(items[j].violation_code) = normalizeCode(code)}

\* C16: for any page classification and any item list, the empty one included, a
\* match_photos execution in which every store call succeeds writes exactly one
\* photo row for each page flagged as evidence with a non-null code, with a null
\* item link when no item matches, and no row for any other page.
C16_OneRowPerQualifyingPage ==
    [][(last'.op = "match-photos" /\ faults' = faults)
        => LET pages == pageAnalysis[1]
           IN  \A k \in 1..Len(pages) :
                 LET rows == RowsOfPage(NewPhotos, pages[k].page_number)
                 IN  IF k \in QualifyingPages(pages)
                     THEN /\ Cardinality(rows) = 1
                          /\ SameCodeItems(pages[k].violation_code[1]) = {}
                                => \A i \in rows : NewPhotos[i].violation_item_id = 0
                     ELSE rows = {}]_vars

\* the positions where a word (a maximal run of non-space characters) starts
WordStarts(s) == {i \in 1..Len(s) : ~IsSpace(s[i]) /\ (i = 1 \/ IsSpace(s[i - 1]))}

\* the word that starts at position i
WordAt(s, i) ==
    LET e == CHOOSE e \in i..Len(s) :
                /\ \A j \in i..e : ~IsSpace(s[j])
                /\ e = Len(s) \/ IsSpace(s[e + 1])
    IN  SubSeq(s, i, e)

\* the words of s in lower case, each with its rank
WordsOf(s) ==
    {<<Cardinality({j \in WordStarts(s) : j <= i}),
       [k \in 1..Len(WordAt(s, i)) |-> Lower(WordAt(s, i)[k])]>> : i \in WordStarts(s)}

\* the items that carry a code made of the same words as `code`, letter case aside
SameWordsItems(code) ==
    {j \in 1..Len(items) : /\ items[j].violation_code # <<>>
                           /\ WordsOf(items[j].violation_code) = WordsOf(code)}

\* C17: every photo row written for a qualifying page is linked to the first item,
\* in the list's order, whose code equals the page code once whitespace runs are
\* collapsed, both are trimmed and lower-cased (the same words, letter case
\* aside); to no item when there is none; each page has one link at most.
C17_FirstMatchingItem ==
    [][last'.op = "match-photos"
        => /\ \A i \in 1..Len(NewPhotos) :
                LET same == SameWordsItems(NewPhotos[i].matched_violation_code)
                IN  NewPhotos[i].violation_item_id
                        = IF same = {} THEN 0
                          ELSE items[CHOOSE j \in same : \A m \in same : j <= m].id
           /\ \A i, j \in 1..Len(NewPhotos) :
                NewPhotos[i].page_number = NewPhotos[j].page_number => i = j]_vars

\* two pages linked to the first of two items whose codes normalize identically
C17_Witness ==
    /\ pc = "start" /\ cur = 5
    /\ Len(items) = 2
    /\ items[1].violation_code = Code309Wide
    /\ items[2].violation_code = Code309
    /\ Len(photos) = 2
    /\ photos[1].violation_item_id = items[1].id
    /\ photos[2].violation_item_id = items[1].id

\* C18 as stated: the item codes '12-G DCMR § 309.1' and '12-G DCMR  §309.1' both
\* normalize to the page code '12-g dcmr § 309.1', so a page with that code is
\* linked to an item whenever the list holds either of them.
C18_ExampleCodesMatch ==
    [][last'.op = "match-photos"
        => \A i \in 1..Len(NewPhotos) :
            (/\ NewPhotos[i].matched_violation_code = Code309Lower
             /\ \E j \in 1..Len(items) : items[j].violation_code \in {Code309, Code309Joined})
                => NewPhotos[i].violation_item_id # 0]_vars

\* C18 amended: normalization identifies codes that differ only by letter case
\* and by the length of whitespace runs: a page coded '12-g dcmr § 309.1' is
\* linked to an item whenever the list holds '12-G DCMR § 309.1' or
\* '12-G DCMR  § 309.1', and to none when the only codes in the list are
\* '12-G DCMR  §309.1', which lacks the space after the section sign.
C18_CaseAndSpacingMatch ==
    [][last'.op = "match-photos"
        => \A i \in 1..Len(NewPhotos) :
            NewPhotos[i].matched_violation_code = Code309Lower
                => /\ (\E j \in 1..Len(items) :
                            items[j].violation_code \in {Code309, Code309Wide})
                        => NewPhotos[i].violation_item_id # 0
                   /\ (\A j \in 1..Len(items) :
                            items[j].violation_code \in {Code309Joined, <<>>})
                        => NewPhotos[i].violation_item_id = 0]_vars

\* a page coded in lower case linked to the only item, whose code has upper-case
\* letters and a longer whitespace run
C18_Witness ==
    /\ pc = "start" /\ cur = 5
    /\ Len(items) = 1
    /\ items[1].violation_code = Code309Wide
    /\ \E i \in 1..Len(photos) :
        /\ photos[i].matched_violation_code = Code309Lower
        /\ photos[i].violation_item_id = items[1].id

\* C19: after match_photos completes (every store call succeeding), the recorded
\* photos_matched is the number of qualifying pages linked to an item,
\* photos_unmatched the number linked to no item, and their sum the number of
\* qualifying pages.
C19_CountersPartition ==
    [][(/\ last'.op = "match-photos"
        /\ faults' = faults
        /\ "photos_matched" \in DOMAIN metaExtras')
        => LET linked == {i \in 1..Len(NewPhotos) : NewPhotos[i].violation_item_id # 0}
               unlinked == {i \in 1..Len(NewPhotos) : NewPhotos[i].violation_item_id = 0}
           IN  /\ metaExtras'["photos_matched"] = Cardinality(linked)
               /\ metaExtras'["photos_unmatched"] = Cardinality(unlinked)
               /\ metaExtras'["photos_matched"] + metaExtras'["photos_unmatched"]
                    = Cardinality(QualifyingPages(pageAnalysis[1]))]_vars

(***************************************************************************)
(* Claims about runs at once                                               *)
(***************************************************************************)
\* C20: in every reachable state, also after step 'match-photos' has been executed
\* more than once for the same violation, the photo rows of a violation hold at
\* most one row per page number
C20_OnePhotoRowPerPage ==
    \A id \in DOMAIN db :
        \A i, j \in 1..Len(db[id].photos) :
            db[id].photos[i].page_number = db[id].photos[j].page_number => i = j

\* the step names the ParseLogger of a run holds, which its flush writes
HeldSteps(run) == {run.lg.steps[i].step : i \in 1..Len(run.lg.steps)}

\* C12: when runs for the same violation interleave their flushes, a write leaves
\* every step the writing run does not hold at the status written last, and
\* removes no log entry that is persisted
C12_NoLostUpdate ==
    [][\A r \in DOMAIN runs :
        runs'[r] # runs[r] =>
            LET before == db[runs[r].id]
                after == db'[runs[r].id]
            IN  /\ \A i \in 1..Len(before.logs) : before.logs[i] \in Range(after.logs)
                /\ \A i \in 1..Len(before.steps) :
                      before.steps[i].step \notin HeldSteps(runs[r])
                      => StatusOf(after.steps, before.steps[i].step) = before.steps[i].status]_vars

\* the run executing alone on the row the trigger created: every call in program
\* order, every flush reading and writing at once
Tick(w) == [w EXCEPT !.now = @ + 1]

AloneStart(run) ==
    Tick(InitBody([status |-> TriggerRow.status, parseStatus |-> TriggerRow.parseStatus,
                   steps |-> TriggerRow.steps, logs |-> TriggerRow.logs,
                   extras |-> TriggerRow.extras, items |-> TriggerRow.items,
                   photos |-> TriggerRow.photos, lg |-> NewLogger, now |-> 1,
                   nlogs |-> run.nlogs], TRUE))

RECURSIVE AloneFrom(_, _, _)
AloneFrom(w0, k, run) ==
    IF k > Len(StepNames) THEN w0
    ELSE Val({AloneFrom(Tick(stepComplete(b.w, StepNames[k], <<b.verification>>, b.extra,
                                          TRUE, TRUE)), k + 1, run)
              : b \in {BodyOf(k, Tick(stepStart(w0, StepNames[k], TRUE, TRUE)), run)}})

AloneRow(r) ==
    Val({[status |-> w.status, parseStatus |-> w.parseStatus, steps |-> w.steps,
          logs |-> w.logs, extras |-> w.extras, items |-> w.items, photos |-> w.photos]
         : w \in {AloneFrom(AloneStart(NewRun(r, runs[r].id, runs[r].doc, runs[r].pages)),
                            1, runs[r])}})

OwnsItsRecord(r) == \A o \in DOMAIN runs : o # r => runs[o].id # runs[r].id

\* C13: a call of a run leaves the rows of every other violation as they are, and
\* under any interleaving with runs for other violations a run that has ended
\* leaves its violation as it does when it executes alone
C13_DistinctRecordsIndependent ==
    [][/\ \A r \in DOMAIN runs :
            runs'[r] # runs[r] =>
                \A id \in DOMAIN db : id # runs[r].id => db'[id] = db[id]
       /\ \A r \in DOMAIN runs :
            (OwnsItsRecord(r) /\ runs'[r].phase = "done")
            => db'[runs[r].id] = AloneRow(r)]_vars

C13_Witness ==
    \E r, o \in DOMAIN runs :
        /\ OwnsItsRecord(r)
        /\ runs[r].phase = "done" /\ runs[o].phase = "done"
        /\ db[runs[r].id] # db[runs[o].id]

(***************************************************************************)
(* Claims about the step bodies                                            *)
(***************************************************************************)
\* C21: whatever the pages, the item rows, the unmatched pages and the failed
\* photo inserts, step 'match-photos' records match_photos 'completed' in its
\* ParseLogger, never persists it as 'failed', persists it as 'completed' when
\* the store calls of its flush succeed, and the run goes on to step 'mark-complete'
C21_MatchPhotosNeverFails ==
    [][last'.op = "match-photos"
        => /\ StatusOf(lgSteps', "match_photos") = "completed"
           /\ StatusOf(metaSteps', "match_photos") # "failed"
           /\ (last'.readOk /\ last'.writeOk)
                => StatusOf(metaSteps', "match_photos") = "completed"
           /\ pc' = "start" /\ cur' = 5]_vars

\* a run of 'match-photos' with item rows, an unmatched page and a failed insert
C21_Witness ==
    /\ last.op = "match-photos"
    /\ items # <<>>
    /\ faults > 0
    /\ last.readOk /\ last.writeOk
    /\ "photos_unmatched" \in DOMAIN metaExtras
    /\ metaExtras["photos_unmatched"] > 0
    /\ Len(photos) < Cardinality(QualifyingPages(pageAnalysis[1]))

\* run r executes the body of step 'insert-records' in this step
InsertsRecords(r) == runs[r].phase = "body" /\ runs[r].cur = 2 /\ runs'[r] # runs[r]

\* the rows of a list of item rows that repeat the item number of an earlier row
DuplicateItems(its) ==
    {j \in 1..Len(its) : \E i \in 1..(j - 1) : its[i].item_number = its[j].item_number}

\* C22: every execution of the insert of step 'insert-records' adds one item row per
\* work order whatever rows the violation already holds, so a second execution
\* for the same violation leaves every item twice; no call removes an item row
C22_InsertNotIdempotent ==
    [][\A r \in DOMAIN runs :
        LET before == db[runs[r].id].items
            after == db'[runs[r].id].items
            wos == runs[r].doc.work_orders
        IN  /\ IsPrefix(before, after)
            /\ InsertsRecords(r)
                => /\ Len(after) = Len(before) + Len(wos)
                   /\ \A i \in 1..Len(wos) :
                        /\ after[Len(before) + i].item_number = wos[i].item_number
                        /\ after[Len(before) + i].violation_code = wos[i].violation_code
                   /\ before # <<>> => DuplicateItems(after) # {}]_vars

\* both runs for a violation have inserted and ended, and the duplicates are there
C22_Witness ==
    \E r, o \in DOMAIN runs :
        /\ r # o /\ runs[r].id = runs[o].id
        /\ runs[r].phase = "done" /\ runs[o].phase = "done"
        /\ Len(db[runs[r].id].items) = Len(runs[r].doc.work_orders) + Len(runs[o].doc.work_orders)
        /\ DuplicateItems(db[runs[r].id].items) # {}

\* C23: step 'insert-records' records insert_records 'completed' exactly when the
\* number of item rows of the violation it reads back equals the number of work
\* orders, and 'failed' whenever the number differs; its flush persists that status
C23_CountVerification ==
    [][\A r \in DOMAIN runs :
        /\ InsertsRecords(r)
            => LET count == Len(db'[runs[r].id].items)
                   expected == Len(runs[r].doc.work_orders)
               IN  /\ StatusOf(runs'[r].lg.steps, "insert_records")
                        = IF count = expected THEN "completed" ELSE "failed"
                   /\ runs'[r].forced = IF count = expected THEN "" ELSE "failed"
        /\ (runs[r].phase = "body-update" /\ runs[r].cur = 2 /\ runs'[r] # runs[r])
            => /\ StatusOf(db'[runs[r].id].steps, "insert_records")
                    = StatusOf(runs[r].lg.steps, "insert_records")
               /\ runs[r].forced = "failed" => db'[runs[r].id].parseStatus = "failed"]_vars

\* a run whose insert came second: it read back more rows than it inserted and
\* its flush has persisted insert_records 'failed'
C23_Witness ==
    \E r \in DOMAIN runs :
        /\ runs[r].cur = 3 /\ runs[r].phase = "start"
        /\ Len(db[runs[r].id].items) > Len(runs[r].doc.work_orders)
        /\ StatusOf(runs[r].lg.steps, "insert_records") = "failed"
        /\ StatusOf(db[runs[r].id].steps, "insert_records") = "failed"

(***************************************************************************)
(* Claims about the notice-level update                                    *)
(***************************************************************************)
\* days from 1 January 2000 to the date
RECURSIVE DaysBeforeYear(_)
DaysBeforeYear(y) ==
    IF y <= 2000 THEN 0
    ELSE DaysBeforeYear(y - 1) + (IF IsLeapYear(y - 1) THEN 366 ELSE 365)

RECURSIVE DaysBeforeMonth(_, _)
DaysBeforeMonth(y, m) ==
    IF m <= 1 THEN 0 ELSE DaysBeforeMonth(y, m - 1) + DaysInMonth(y, m - 1)

DayNumber(date) == DaysBeforeYear(date.y) + DaysBeforeMonth(date.y, date.m) + date.d

\* the day counts of the deadline texts that parse as a number
ParsedDays(orders) ==
    {parseInt(orders[i].abatement_deadline)[1] :
        i \in {j \in 1..Len(orders) : parseInt(orders[j].abatement_deadline) # <<>>}}

\* the service date of the extraction result, <<>> when it is not a date
ServiceDay ==
    IF parseDate(aiResult[1].date_of_service) = <<>> THEN <<>>
    ELSE NewDate(parseDate(aiResult[1].date_of_service)[1])

\* C24: for a parseable service date and a non-empty list of item deadlines, the
\* deadline of the violation is the service date plus the least day count among
\* the deadlines that parse as a number, and plus 60 days only when none parses
C24_DeadlineIsMinOfParsed ==
    (notice # <<>> /\ ServiceDay # <<>> /\ aiResult[1].work_orders # <<>>)
    => LET days == ParsedDays(aiResult[1].work_orders)
           expected == IF days = {} THEN 60
                       ELSE CHOOSE n \in days : \A k \in days : n <= k
       IN  /\ ~notice[1].threw
           /\ notice[1].abatement_deadline # <<>>
           /\ NewDate(notice[1].abatement_deadline[1]) # <<>>
           /\ DayNumber(NewDate(notice[1].abatement_deadline[1])[1])
                = DayNumber(ServiceDay[1]) + expected

\* C25: the priority 'insert-records' writes is the least of the item priorities
\* and 3, so it is 1 for [2, 1, 3], 3 for no items, and within 1..3
C25_PriorityIsMin ==
    (notice # <<>> /\ ~notice[1].threw)
    => LET ps == {aiResult[1].work_orders[i].priority : i \in 1..Len(aiResult[1].work_orders)}
                 \cup {3}
       IN  /\ notice[1].priority \in ps
           /\ \A q \in ps : notice[1].priority <= q
           /\ notice[1].priority \in 1..3
           /\ aiResult[1].work_orders = <<>> => notice[1].priority = 3
           /\ [i \in 1..Len(aiResult[1].work_orders) |-> aiResult[1].work_orders[i].priority]
                = <<2, 1, 3>> => notice[1].priority = 1

C25_Witness ==
    /\ notice # <<>>
    /\ ~notice[1].threw
    /\ [i \in 1..Len(aiResult[1].work_orders) |-> aiResult[1].work_orders[i].priority]
         = <<2, 1, 3>>
    /\ notice[1].priority = 1

\* the text is one to two digits, '/', one to two digits, '/', four digits
IsSlashDate(text) ==
    LET parts == Split(text)
        digits(part) == \A i \in 1..Len(part) : IsDigit(part[i])
    IN  /\ Len(parts) = 3
        /\ Len(parts[1]) \in 1..2 /\ digits(parts[1])
        /\ Len(parts[2]) \in 1..2 /\ digits(parts[2])
        /\ Len(parts[3]) = 4 /\ digits(parts[3])

\* C26: date normalization turns a text of the form MM/DD/YYYY into YYYY-MM-DD
\* with month and day padded to two digits, and yields null for every other text
C26_DateNormalization ==
    notice # <<>>
    => LET text == aiResult[1].date_of_service
           parts == Split(text)
       IN  IF IsSlashDate(text)
           THEN notice[1].date_of_service
                    = <<parts[3] \o <<"-">> \o Pad(DecimalValue(parts[1]), 2)
                        \o <<"-">> \o Pad(DecimalValue(parts[2]), 2)>>
           ELSE notice[1].date_of_service = <<>>

(***************************************************************************)
(* Claims about the business status                                        *)
(***************************************************************************)
\* C27: canTransition(from, to) is true exactly when `to` is listed for `from`,
\* that is when getNextStatuses(from) holds it, so the page offers exactly the
\* statuses canTransition accepts; CLOSED -> ASSIGNED is rejected, SUBMITTED ->
\* APPROVED accepted, and NEW allows exactly PARSING, ASSIGNED and CLOSED
C27_CanTransitionIsAllowList ==
    /\ \A to \in Statuses : canTransition(ui.view, to) <=> to \in SeqRange(ui.offered)
    /\ \A to \in Statuses : canTransition(status, to) <=> to \in SeqRange(getNextStatuses(status))
    /\ \A to \in Statuses : status = "CLOSED" => ~canTransition(status, to)
    /\ status = "SUBMITTED" => canTransition(status, "APPROVED")
    /\ status = "NEW"
        => {to \in Statuses : canTransition(status, to)} = {"PARSING", "ASSIGNED", "CLOSED"}

\* the page shows a submitted violation and offers its three outcomes
C27_Witness ==
    /\ status = "SUBMITTED"
    /\ ui.view = "SUBMITTED"
    /\ ui.requests > 0
    /\ SeqRange(ui.offered) = {"APPROVED", "REJECTED", "ADDITIONAL_INFO_REQUESTED"}
    /\ canTransition(ui.view, "APPROVED")

\* C28: every committed change of the business status, by step 'init', by step
\* 'mark-complete' or by a user's request, is a transition the allow-list holds
\* for the status the violation has
C28_OnlyAllowedTransitions ==
    [][status' # status => canTransition(status, status')]_vars

\* C29: an update that changes the status appends exactly one audit entry with
\* the old and the new status, an update that does not change it appends none,
\* no entry is changed or removed, and each entry's old status is the new status
\* of the entry before it
C29_AuditChain ==
    [][/\ status' # status
            => audit' = Append(audit, [old_values |-> status, new_values |-> status'])
       /\ status' = status => audit' = audit
       /\ \A i \in 2..Len(audit') : audit'[i].old_values = audit'[i - 1].new_values
       /\ Len(audit') > 0 => audit'[Len(audit')].new_values = status']_vars

\* the run has changed the status twice, and an update has left it as it was
C29_Witness ==
    /\ pc = "done"
    /\ ui.requests > 0
    /\ audit = <<[old_values |-> "NEW", new_values |-> "PARSING"],
                 [old_values |-> "PARSING", new_values |-> "PARSED"]>>

(***************************************************************************)
(* Claims about the extraction client                                      *)
(***************************************************************************)
\* the response is a non-empty text that parses as a JSON object
IsJsonObject(r) == r.text = "json" /\ r.parsed.type = "object"

\* C30: parseNOIPdf returns a result only for a non-empty response that parses as
\* JSON, holds notice_level_data and holds work_orders as an array, and
\* analyzePdfPages only for one that parses and holds a pages array; in every
\* other case they raise, and whenever they raise they return no data
C30_ResultOnlyForExpectedShape ==
    response.outcome # <<>>
    => LET r == response.response
           out == response.outcome[1]
           expected == IF response.call = "parseNOIPdf"
                       THEN /\ IsJsonObject(r)
                            /\ r.parsed.notice_level_data.type # "undefined"
                            /\ r.parsed.work_orders.type = "array"
                       ELSE /\ IsJsonObject(r)
                            /\ r.parsed.pages.type = "array"
       IN  /\ ~out.raised => expected
           /\ ~expected => out.raised
           /\ out.raised => out.result = <<>>
           /\ ~out.raised => out.result # <<>> /\ out.result[1][IF response.call = "parseNOIPdf" THEN "parsed" ELSE "analysis"] = r.parsed

\* parseNOIPdf has returned a result with work orders
C30_Witness ==
    /\ response.call = "parseNOIPdf"
    /\ response.outcome # <<>>
    /\ ~response.outcome[1].raised
    /\ response.outcome[1].result[1].work_order_count = MaxElements

(***************************************************************************)
(* Claims about termination and retries                                    *)
(***************************************************************************)
\* C31: under fair scheduling every run ends; a step function is run at most
\* three times (once and the two retries), the step that runs is never an earlier
\* one than a step already started, and the run ends after step 'mark-complete'
\* returned or when a step threw on its last retry.
C31_RunTerminates ==
    /\ [](attempt <= Retries)
    /\ [][/\ cur' >= cur
          /\ (pc = "body" /\ pc' # "body") => last'.step = StepNames[cur]
          /\ (pc' = "done" /\ pc # "done")
                => cur = Len(StepNames) /\ last'.op = "mark-complete"
          /\ (pc' = "dead" /\ pc # "dead") => pc = "body" /\ attempt = Retries]_vars
    /\ <>[](pc \in {"done", "dead"})

\* 'analyze-pages' threw three times after two steps had returned
C31_Witness ==
    /\ pc = "dead"
    /\ cur = 3
    /\ attempt = Retries
    /\ StatusOf(metaSteps, "insert_records") = "completed"

\* C32: once step 'mark-complete' has returned, status PARSED implies
\* parse_status 'completed' and all five steps 'completed'.
C32_ParsedImpliesCompleted ==
    (pc = "done" /\ status = "PARSED")
        => /\ parseStatus = "completed"
           /\ \A n \in KnownSteps : StatusOf(metaSteps, n) = "completed"

\* the pages flagged as evidence for which the step wrote no photo row linked to
\* an item
UnlinkedEvidencePages(pages) ==
    {k \in 1..Len(pages) :
        /\ pages[k].is_evidence_photo
        /\ \A i \in RowsOfPage(NewPhotos, pages[k].page_number) :
                NewPhotos[i].violation_item_id = 0}

\* C33: match_photos logs one warn-level entry for every page classified as an
\* evidence photo that ends up linked to no item, whether its code matches no
\* item, its code is null or the record has no item rows. Stated for executions
\* whose store calls all succeed.
C33_WarnPerUnlinkedPage ==
    [][(last'.op = "match-photos" /\ faults' = faults)
        => Cardinality({i \in 1..Len(metaLogs') :
                            /\ metaLogs'[i].step = "match_photos"
                            /\ metaLogs'[i].level = "warn"
                            /\ metaLogs'[i].message = "No item match"})
            = Cardinality(UnlinkedEvidencePages(pageAnalysis[1]))]_vars

(***************************************************************************)
(* Claims about the ledger under retries and failed store calls            *)
(***************************************************************************)
\* C34: a persisted step entry has no completed_at while it is pending or running
\* and has one when it is completed or failed; and once the entry of a step has a
\* completed_at, no later write, retries of the step included, removes or
\* replaces it.
C34_CompletedAtSetOnce ==
    /\ [](\A i \in 1..Len(metaSteps) :
            (metaSteps[i].completed_at # NoTs) <=> (metaSteps[i].status \in {"completed", "failed"}))
    /\ [][\A i \in 1..Len(metaSteps), j \in 1..Len(metaSteps') :
            (metaSteps[i].completed_at # NoTs /\ metaSteps'[j].step = metaSteps[i].step)
                => metaSteps'[j].completed_at = metaSteps[i].completed_at]_vars

\* the persisted logs show a stepFail of a step followed by a stepStart of it
RetriedAfterFail ==
    \E i, j \in 1..Len(metaLogs) :
        /\ i < j
        /\ metaLogs[i].step = metaLogs[j].step
        /\ metaLogs[i].message = "FAILED"
        /\ metaLogs[j].message = "STARTED"

\* C35: when a step persisted 'failed' (and no other) is retried, the stepStart
\* of the retry takes parse_status from 'failed' to 'processing' and the entry to
\* 'running'; when the retry returns, the entry is persisted 'completed'; and
\* when nothing else goes wrong the run ends with parse_status 'completed' and
\* five completed steps. Stated for flushes whose store calls succeed.
C35_RetryRecovers ==
    /\ [][(pc = "start" /\ attempt > 0
           /\ (\A n \in KnownSteps :
                    (StatusOf(metaSteps, n) = "failed") <=> (n = StepNames[cur]))
           /\ last'.op = "stepStart" /\ last'.readOk /\ last'.writeOk)
            => (/\ parseStatus = "failed"
                /\ parseStatus' = "processing"
                /\ StatusOf(metaSteps', StepNames[cur]) = "running")]_vars
    /\ [][(pc = "body" /\ attempt > 0 /\ pc' \in {"start", "done"} /\ attempt' = 0
           /\ ~last'.forced /\ last'.readOk /\ last'.writeOk)
            => StatusOf(metaSteps', StepNames[cur]) = "completed"]_vars
    /\ []((pc = "done" /\ faults = 1 /\ RetriedAfterFail)
            => (/\ parseStatus = "completed"
                /\ \A n \in KnownSteps : StatusOf(metaSteps, n) = "completed"))

\* a run whose 'analyze-pages' was persisted failed, retried, and which ended
C35_Witness ==
    /\ pc = "done"
    /\ faults = 1
    /\ RetriedAfterFail
    /\ \E i \in 1..Len(metaLogs) :
            metaLogs[i].step = "analyze_pages" /\ metaLogs[i].message = "FAILED"
    /\ parseStatus = "completed"

\* C36: when the update of a flush fails, the log entries the flush tried to
\* persist (those buffered before the call and those the call generated) are
\* still in the buffer of the ParseLogger, and a flush whose store calls succeed
\* persists every buffered entry.
C36_FailedWriteKeepsBuffer ==
    /\ [][(last'.flushed /\ ~last'.writeOk)
            => (/\ \A i \in 1..Len(lgLogs) : lgLogs[i] \in Range(lgLogs')
                /\ \A id \in (nlogs + 1)..nlogs' :
                        \E i \in 1..Len(lgLogs') : lgLogs'[i].id = id)]_vars
    /\ [][(last'.flushed /\ last'.readOk /\ last'.writeOk)
            => \A i \in 1..Len(lgLogs) : lgLogs[i] \in Range(metaLogs')]_vars

\* C37: a flush whose select of parse_metadata returns no data and whose update is
\* applied discards nothing persisted before it: every step that had an entry
\* still has one, every persisted log entry is still persisted, and every other
\* key of parse_metadata (the counters) is still there.
C37_EmptyReadKeepsPersisted ==
    [][(last'.flushed /\ ~last'.readOk /\ last'.writeOk)
        => (/\ \A i \in 1..Len(metaSteps) :
                    \E j \in 1..Len(metaSteps') : metaSteps'[j].step = metaSteps[i].step
            /\ \A i \in 1..Len(metaLogs) : metaLogs[i] \in Range(metaLogs')
            /\ DOMAIN metaExtras \subseteq DOMAIN metaExtras')]_vars

\* C38: once ai_parse is persisted 'running', the entry 'Parse pipeline started'
\* that step 'init' buffered is among the persisted logs, also when the function
\* context was re-created between the two steps. Stated for runs whose store
\* calls all succeed.
C38_InitEntryPersisted ==
    (faults = 0 /\ cur >= 1 /\ StatusOf(metaSteps, "ai_parse") = "running")
        => \E i \in 1..Len(metaLogs) :
            metaLogs[i].step = "init" /\ metaLogs[i].message = "Parse pipeline started"

(***************************************************************************)
(* Claims about the allow-list graph                                       *)
(***************************************************************************)
\* the statuses the allow-list leads to from those of S, in any number of steps
RECURSIVE ReachableFrom(_)
ReachableFrom(S) ==
    LET T == S \cup UNION {SeqRange(getNextStatuses(f)) : f \in S}
    IN  IF T = S THEN S ELSE ReachableFrom(T)

\* C39: the allow-list has 13 statuses; whatever status a violation has, the
\* allow-list leads from NEW to it and from it to CLOSED, it lists no successor
\* exactly when it is CLOSED, and it does not list itself.
C39_AllowListGraph ==
    /\ Cardinality(DOMAIN VALID_TRANSITIONS) = 13
    /\ status \in ReachableFrom({"NEW"})
    /\ "CLOSED" \in ReachableFrom({status})
    /\ (Len(getNextStatuses(status)) = 0) <=> (status = "CLOSED")
    /\ ~canTransition(status, status)
    /\ \A i \in 1..Len(getNextStatuses(status)) : getNextStatuses(status)[i] # status

\* a violation a user took from REJECTED back to IN_PROGRESS and then closed
C39_Witness ==
    /\ status = "CLOSED"
    /\ Len(audit) >= 2
    /\ audit[Len(audit)].old_values = "IN_PROGRESS"
    /\ audit[Len(audit) - 1].old_values = "REJECTED"
    /\ ui.offered = <<>>

====
